---- MODULE Spec2Model ----
(***************************************************************************)
(* A model of the directory scanner (src/src/scanner.ts), the list-mode    *)
(* exclusion filter and c-style comment stripper (src/src/index.ts) and    *)
(* the SQL comment stripper (comment-stripper module).                     *)
(*                                                                         *)
(* Strings are sequences of one-character strings, so that every string    *)
(* operation of the code (replace, split, startsWith, includes, basename)  *)
(* is computed character by character as the code computes it.             *)
(***************************************************************************)
EXTENDS Integers, Sequences, FiniteSets, TLC

VARIABLES
    fPath,      \* filter harness: the path handed to the filter
    fRules,     \* filter harness: the rule list handed to the filter
    fCall,      \* filter harness: "none", "isBlacklisted" or "shouldExcludeFile"
    fResult,    \* filter harness: what the call returned
    fThrew,     \* filter harness: the call threw instead of returning
    eDir,       \* isEnvFile harness: the directory of the file
    eName,      \* isEnvFile harness: the name of the file
    eCall,      \* isEnvFile harness: "none" or "isEnvFile"
    eResult,    \* isEnvFile harness: what the call returned
    tIn,        \* c-style stripper harness: the content
    tFn,        \* c-style stripper harness: "none", "typescript" or "json"
    tCalls,     \* c-style stripper harness: how often the stripper was applied
    tOnce,      \* c-style stripper harness: the content stripped once
    tTwice,     \* c-style stripper harness: the content stripped twice
    qIn,        \* SQL stripper harness: the content
    qCalls,     \* SQL stripper harness: how often the stripper was applied
    qOnce,      \* SQL stripper harness: the content stripped once
    qTwice,     \* SQL stripper harness: the content stripped twice
    platformSep,     \* path.sep of the platform: "/" or "\\"
    tree,            \* the directory tree under the target directory: a set of nodes
    blacklistFile,   \* the lines of the rules file, or "missing"
    includeEnvFiles, \* the --env flag
    mainPc,          \* main: "start", "scan" or "done"
    blacklist,       \* the rules readBlacklist returned
    stack,           \* the scanDirectory calls in progress, innermost last
    output,          \* the strings written to outputStream, in order
    shadow,          \* output of the same walk over a tree whose .env contents differ
    stats,           \* the counters dirs, files, skipped, envFiles
    readLog,         \* the nodes safeReadFile was called on, in order
    listLog,         \* the nodes readdir was called on, in order
    errors,          \* how many times scanDirectory logged a failure
    streamEnds,      \* how many times outputStream.end() was called
    errorLog,        \* the directories named by the console.error of scanDirectory
    listData,        \* what readdir delivered, call by call: the entries or a failure
    readData,        \* what safeReadFile returned, call by call
    exitCode,        \* the exit status of the process, -1 while it runs
    sIn,        \* comment-stripper module harness: the content
    sType,      \* comment-stripper module harness: the file type
    sLib,       \* comment-stripper module harness: what the library call did
    sCall,      \* comment-stripper module harness: "none" or the function called
    sResult     \* comment-stripper module harness: how the call ended

filterVars == <<fPath, fRules, fCall, fResult, fThrew>>

envVars == <<eDir, eName, eCall, eResult>>

tsVars == <<tIn, tFn, tCalls, tOnce, tTwice>>

sqlVars == <<qIn, qCalls, qOnce, qTwice>>

stripVars == <<sIn, sType, sLib, sCall, sResult>>

histVars == <<errorLog, listData, readData, exitCode>>

walkVars ==
    <<platformSep, tree, blacklistFile, includeEnvFiles, mainPc, blacklist, stack,
      output, shadow, stats, readLog, listLog, errors, streamEnds, histVars>>

vars == <<filterVars, envVars, tsVars, sqlVars, stripVars, walkVars>>

(***************************************************************************)
(* Bounds of the model.                                                    *)
(***************************************************************************)
MaxPathLen == 3      \* longest generic path string handed to the filters
MaxRuleChars == 3    \* most characters in a generic rule list, all rules together
MaxRules == 2        \* most rules in a generic rule list
MaxSegs == 2         \* most segments of a path built from the example names
MaxNameLen == 5      \* longest generic file name handed to isEnvFile
MaxTsLen == 4        \* longest generic content handed to the c-style stripper
MaxSqlLen == 6       \* longest generic content handed to the SQL stripper
MaxNodes == 3        \* most nodes of a directory tree
MaxDepth == 2        \* deepest nesting of a node of a directory tree
MaxBlankLen == 6     \* longest generic content handed to the comment-stripper module

(***************************************************************************)
(* Strings.                                                                *)
(***************************************************************************)
Str(A, n) == UNION {[1..k -> A] : k \in 0..n}

Last(s) == s[Len(s)]

StartsWith(s, p) == Len(p) <= Len(s) /\ SubSeq(s, 1, Len(p)) = p

EndsWith(s, p) == Len(p) <= Len(s) /\ SubSeq(s, Len(s) - Len(p) + 1, Len(s)) = p

\* String.prototype.includes(ch, from), from counted from 0 as in the code
IncludesFrom(s, ch, from) == \E i \in (from + 1)..Len(s) : s[i] = ch

Includes(s, ch) == IncludesFrom(s, ch, 0)

\* s.replace(/\\/g, '/')
ReplaceBackslashes(s) == [i \in 1..Len(s) |-> IF s[i] = "\\" THEN "/" ELSE s[i]]

RECURSIVE LeadingSlashes(_)
LeadingSlashes(s) ==
    IF s # <<>> /\ Head(s) = "/" THEN 1 + LeadingSlashes(Tail(s)) ELSE 0

RECURSIVE TrailingSlashes(_)
TrailingSlashes(s) ==
    IF s # <<>> /\ Last(s) = "/"
    THEN 1 + TrailingSlashes(SubSeq(s, 1, Len(s) - 1)) ELSE 0

\* s.replace(/^\/+|\/+$/g, '')
StripSlashes(s) ==
    IF LeadingSlashes(s) = Len(s) THEN <<>>
    ELSE SubSeq(s, LeadingSlashes(s) + 1, Len(s) - TrailingSlashes(s))

RECURSIVE SplitAcc(_, _, _, _)
SplitAcc(s, sep, cur, acc) ==
    IF s = <<>> THEN Append(acc, cur)
    ELSE IF Head(s) = sep THEN SplitAcc(Tail(s), sep, <<>>, Append(acc, cur))
    ELSE SplitAcc(Tail(s), sep, Append(cur, Head(s)), acc)

\* s.split(sep): always at least one piece, empty pieces kept
Split(s, sep) == SplitAcc(s, sep, <<>>, <<>>)

SeqIncludes(seq, x) == \E i \in 1..Len(seq) : seq[i] = x

RECURSIVE Join(_, _)
Join(pieces, sep) ==
    IF pieces = <<>> THEN <<>>
    ELSE IF Len(pieces) = 1 THEN pieces[1]
    ELSE pieces[1] \o sep \o Join(Tail(pieces), sep)

\* path.basename (posix rules; the callers pass forward-slash paths or
\* platform paths whose separators the platform turns into segments)
basename(p) ==
    LET q == SubSeq(p, 1, Len(p) - TrailingSlashes(p))
    IN  IF q = <<>> THEN <<>> ELSE Last(Split(q, "/"))

\* path.basename of the platform: win32 takes both separators
pathBasename(p) ==
    IF platformSep = "\\" THEN basename(ReplaceBackslashes(p)) ELSE basename(p)

\* path.extname of the platform: from the last '.' of the basename, empty when
\* there is none or it is the first character
RECURSIVE LastIndexOf(_, _)
LastIndexOf(s, ch) ==
    IF s = <<>> THEN 0
    ELSE IF Last(s) = ch THEN Len(s)
    ELSE LastIndexOf(SubSeq(s, 1, Len(s) - 1), ch)

pathExtname(p) ==
    LET b == pathBasename(p)
        k == LastIndexOf(b, ".")
    IN  IF k <= 1 \/ b = <<".", ".">> THEN <<>> ELSE SubSeq(b, k, Len(b))

\* path.join(dirPath, name) for a directory path and an entry name
pathJoin(dirPath, name) ==
    IF dirPath = <<>> THEN name ELSE dirPath \o <<platformSep>> \o name

(***************************************************************************)
(* scanner.ts: isBlacklisted                                               *)
(***************************************************************************)
knownDirectories ==
    { <<"n", "o", "d", "e", "_", "m", "o", "d", "u", "l", "e", "s">>,
      <<".", "g", "i", "t">>,
      <<".", "v", "s", "c", "o", "d", "e">>,
      <<"d", "i", "s", "t">>,
      <<"b", "u", "i", "l", "d">>,
      <<"c", "o", "v", "e", "r", "a", "g", "e">>,
      <<"s", "r", "c">>,
      <<"t", "e", "s", "t">> }

normalizeItem(item) == StripSlashes(ReplaceBackslashes(item))

\* isDirectoryItem without the no-extension heuristic
isDirectoryItem_NoBareWord(normalizedItem) ==
    \/ EndsWith(normalizedItem, <<"/">>)
    \/ normalizedItem \in knownDirectories
    \/ StartsWith(normalizedItem, <<".">>) /\ ~IncludesFrom(normalizedItem, ".", 1)

\* the directory-or-file heuristic applied to a normalized rule
isDirectoryItem(normalizedItem) ==
    LET endsWithSlash == EndsWith(normalizedItem, <<"/">>)
        isKnownDirectory == normalizedItem \in knownDirectories
        isHiddenDir == /\ StartsWith(normalizedItem, <<".">>)
                       /\ ~IncludesFrom(normalizedItem, ".", 1)
        hasNoExtension == ~Includes(normalizedItem, ".")
    IN  endsWithSlash \/ isKnownDirectory \/ isHiddenDir \/ hasNoExtension

\* itemExcludes without the segment test of step 4
itemExcludes_NoSegmentTest(normalizedPath, pathSegments, item) ==
    LET normalizedItem == normalizeItem(item)
    IN  \/ normalizedPath = normalizedItem
        \/ /\ isDirectoryItem(normalizedItem)
           /\ \/ normalizedPath = normalizedItem
              \/ StartsWith(normalizedPath, normalizedItem \o <<"/">>)
        \/ /\ ~isDirectoryItem(normalizedItem)
           /\ Last(pathSegments) = normalizedItem

\* one round of the loop over the blacklist: TRUE when the round returns true
itemExcludes(normalizedPath, pathSegments, item) ==
    LET normalizedItem == normalizeItem(item)
    IN  \/ normalizedPath = normalizedItem
        \/ IF isDirectoryItem(normalizedItem)
           THEN \/ normalizedPath = normalizedItem
                \/ StartsWith(normalizedPath, normalizedItem \o <<"/">>)
                \/ SeqIncludes(pathSegments, normalizedItem)
           ELSE Last(pathSegments) = normalizedItem

\* blacklistLoop returning after its first round
blacklistLoop_FirstOnly(normalizedPath, pathSegments, items) ==
    IF items = <<>> THEN FALSE
    ELSE itemExcludes(normalizedPath, pathSegments, Head(items))

\* blacklistLoop, were the last rule to decide alone
blacklistLoop_LastDecides(normalizedPath, pathSegments, items) ==
    IF items = <<>> THEN FALSE
    ELSE itemExcludes(normalizedPath, pathSegments, items[Len(items)])

RECURSIVE blacklistLoop(_, _, _)
blacklistLoop(normalizedPath, pathSegments, items) ==
    IF items = <<>> THEN FALSE
    ELSE IF itemExcludes(normalizedPath, pathSegments, Head(items)) THEN TRUE
    ELSE blacklistLoop(normalizedPath, pathSegments, Tail(items))

isBlacklisted(currentPath, items) ==
    LET normalizedPath == ReplaceBackslashes(currentPath)
        pathSegments == Split(normalizedPath, "/")
    IN  blacklistLoop(normalizedPath, pathSegments, items)

(***************************************************************************)
(* index.ts: shouldExcludeFile                                             *)
(***************************************************************************)
\* A call of the filter ends in one of three ways: it returns true ("true"),
\* it returns false ("false"), or new RegExp throws a SyntaxError that no
\* handler of the function catches ("throws").
\*
\* new RegExp('^' + regexPattern + '$'), where regexPattern is the pattern
\* with every '.' replaced by '\.' and every '*' by '.*'.  No other character
\* is escaped, so over the characters the rules are drawn from
\*   - '.' of the rule is the literal dot,
\*   - '*' of the rule is the atom "any character" repeated zero or more times,
\*   - '+' is the quantifier "one or more" of the atom before it, and a
\*     SyntaxError ("Nothing to repeat") when there is no atom before it or
\*     that atom has a quantifier already,
\*   - '(' opens a group that nothing closes, a SyntaxError,
\*   - every other character is a literal.
\* The compiled pattern is a sequence of atoms [ch, q]: ch a character or
\* "any", q one of "1", "*", "+".
RegexSyntaxError == [ok |-> FALSE, atoms |-> <<>>]

RECURSIVE regexCompile(_, _)
regexCompile(pattern, atoms) ==
    IF pattern = <<>> THEN [ok |-> TRUE, atoms |-> atoms]
    ELSE LET c == Head(pattern)
         IN  IF c = "*"
             THEN regexCompile(Tail(pattern),
                               Append(atoms, [ch |-> "any", q |-> "*"]))
             ELSE IF c = "+"
             THEN IF atoms = <<>> \/ atoms[Len(atoms)].q # "1"
                  THEN RegexSyntaxError
                  ELSE regexCompile(Tail(pattern),
                                    [atoms EXCEPT ![Len(atoms)].q = "+"])
             ELSE IF c = "("
             THEN RegexSyntaxError
             ELSE regexCompile(Tail(pattern),
                               Append(atoms, [ch |-> c, q |-> "1"]))

\* the anchored match of the atoms against the whole name
RECURSIVE atomsMatch(_, _)
atomsMatch(atoms, name) ==
    IF atoms = <<>> THEN name = <<>>
    ELSE LET a == Head(atoms)
             least == IF a.q = "*" THEN 0 ELSE 1
             most == IF a.q = "1" THEN 1 ELSE Len(name)
         IN  \E k \in least..most :
                /\ k <= Len(name)
                /\ \A j \in 1..k : a.ch = "any" \/ a.ch = name[j]
                /\ atomsMatch(Tail(atoms), SubSeq(name, k + 1, Len(name)))

\* new RegExp(...) and regex.test(name)
regexTest(pattern, name) ==
    LET regex == regexCompile(pattern, <<>>)
    IN  IF ~regex.ok THEN "throws"
        ELSE IF atomsMatch(regex.atoms, name) THEN "true"
        ELSE "false"

\* one round of the loop over the patterns
patternExcludes(normalizedPath, fileName, pattern) ==
    LET normalizedPattern == ReplaceBackslashes(pattern)
    IN  IF \/ normalizedPath = normalizedPattern
           \/ EndsWith(normalizedPath, <<"/">> \o normalizedPattern)
        THEN "true"
        ELSE IF fileName = normalizedPattern THEN "true"
        ELSE IF Includes(normalizedPattern, "*")
        THEN regexTest(normalizedPattern, fileName)
        ELSE "false"

RECURSIVE patternLoop(_, _, _)
patternLoop(normalizedPath, fileName, patterns) ==
    IF patterns = <<>> THEN "false"
    ELSE LET round == patternExcludes(normalizedPath, fileName, Head(patterns))
         IN  IF round = "false"
             THEN patternLoop(normalizedPath, fileName, Tail(patterns))
             ELSE round

shouldExcludeFile(filePath, patterns) ==
    LET normalizedPath == ReplaceBackslashes(filePath)
        fileName == basename(normalizedPath)
    IN  patternLoop(normalizedPath, fileName, patterns)

(***************************************************************************)
(* scanner.ts: isEnvFile                                                   *)
(***************************************************************************)
UpperCase ==
    <<"A", "B", "C", "D", "E", "F", "G", "H", "I", "J", "K", "L", "M",
      "N", "O", "P", "Q", "R", "S", "T", "U", "V", "W", "X", "Y", "Z">>

LowerCase ==
    <<"a", "b", "c", "d", "e", "f", "g", "h", "i", "j", "k", "l", "m",
      "n", "o", "p", "q", "r", "s", "t", "u", "v", "w", "x", "y", "z">>

toLowerChar(c) ==
    IF \E k \in 1..26 : UpperCase[k] = c
    THEN LowerCase[CHOOSE k \in 1..26 : UpperCase[k] = c]
    ELSE c

\* String.prototype.toLowerCase
toLowerCase(s) == [i \in 1..Len(s) |-> toLowerChar(s[i])]

sDotEnv == <<".", "e", "n", "v">>

\* isEnvFile testing the whole path instead of its basename
isEnvFile_WholePath(filePath) ==
    LET fileName == toLowerCase(filePath)
    IN  \/ fileName = sDotEnv
        \/ StartsWith(fileName, sDotEnv \o <<".">>)
        \/ EndsWith(fileName, sDotEnv)

isEnvFile(filePath) ==
    LET fileName == toLowerCase(pathBasename(filePath))
    IN  \/ fileName = sDotEnv
        \/ StartsWith(fileName, sDotEnv \o <<".">>)
        \/ EndsWith(fileName, sDotEnv)

(***************************************************************************)
(* scanner.ts: isTextFile, readBlacklist                                   *)
(***************************************************************************)
textExtensions ==
    { <<".", "t", "x", "t">>,
      <<".", "m", "d">>,
      <<".", "j", "s">>,
      <<".", "t", "s">>,
      <<".", "j", "s", "x">>,
      <<".", "t", "s", "x">>,
      <<".", "c", "s", "s">>,
      <<".", "s", "c", "s", "s">>,
      <<".", "h", "t", "m", "l">>,
      <<".", "h", "t", "m">>,
      <<".", "x", "m", "l">>,
      <<".", "j", "s", "o", "n">>,
      <<".", "y", "a", "m", "l">>,
      <<".", "y", "m", "l">>,
      <<".", "c", "s", "v">>,
      <<".", "i", "n", "i">>,
      <<".", "c", "o", "n", "f">>,
      <<".", "p", "y">>,
      <<".", "j", "a", "v", "a">>,
      <<".", "c">>,
      <<".", "c", "p", "p">>,
      <<".", "h">>,
      <<".", "h", "p", "p">>,
      <<".", "c", "s">>,
      <<".", "g", "o">>,
      <<".", "r", "b">>,
      <<".", "p", "h", "p">>,
      <<".", "p", "l">>,
      <<".", "s", "h">>,
      <<".", "b", "a", "t">>,
      <<".", "p", "s", "1">>,
      <<".", "s", "q", "l">>,
      <<".", "g", "i", "t", "i", "g", "n", "o", "r", "e">>,
      <<".", "e", "n", "v">>,
      <<".", "c", "o", "n", "f", "i", "g">>,
      <<".", "t", "o", "m", "l">>,
      <<".", "d", "o", "c", "k", "e", "r", "f", "i", "l", "e">> }

textFilenames ==
    { <<"d", "o", "c", "k", "e", "r", "f", "i", "l", "e">>,
      <<"m", "a", "k", "e", "f", "i", "l", "e">>,
      <<"j", "e", "n", "k", "i", "n", "s", "f", "i", "l", "e">>,
      <<"v", "a", "g", "r", "a", "n", "t", "f", "i", "l", "e">>,
      <<"r", "e", "a", "d", "m", "e">>,
      <<"l", "i", "c", "e", "n", "s", "e">>,
      <<"g", "e", "m", "f", "i", "l", "e">>,
      <<"r", "a", "k", "e", "f", "i", "l", "e">>,
      <<"p", "r", "o", "c", "f", "i", "l", "e">>,
      <<".", "g", "i", "t", "i", "g", "n", "o", "r", "e">>,
      <<".", "d", "o", "c", "k", "e", "r", "i", "g", "n", "o", "r", "e">>,
      <<".", "n", "p", "m", "i", "g", "n", "o", "r", "e">> }

isTextFile(filePath) ==
    LET ext == toLowerCase(pathExtname(filePath))
        filename == toLowerCase(pathBasename(filePath))
    IN  ext \in textExtensions \/ filename \in textFilenames

WhiteSpace == {" ", "\t", "\n", "\r"}

\* String.prototype.trim
RECURSIVE trim(_)
trim(s) ==
    IF s # <<>> /\ Head(s) \in WhiteSpace THEN trim(Tail(s))
    ELSE IF s # <<>> /\ Last(s) \in WhiteSpace THEN trim(SubSeq(s, 1, Len(s) - 1))
    ELSE s

\* the loop over the lines of the rules file
RECURSIVE blacklistLines(_)
blacklistLines(lines) ==
    IF lines = <<>> THEN <<>>
    ELSE LET trimmedLine == trim(Head(lines))
         IN  IF trimmedLine # <<>> /\ ~StartsWith(trimmedLine, <<"#">>)
             THEN <<ReplaceBackslashes(trimmedLine)>> \o blacklistLines(Tail(lines))
             ELSE blacklistLines(Tail(lines))

\* a rules file that cannot be read gives the empty list, with a warning
readBlacklist(file) == IF file = "missing" THEN <<>> ELSE blacklistLines(file)

(***************************************************************************)
(* index.ts: removeTypeScriptComments, removeJsonComments                  *)
(***************************************************************************)
\* the back-quote character, which a TLA+ string cannot hold
BackQuote == "BQ"

ScanStart ==
    [ inSingleLineComment |-> FALSE, inMultiLineComment |-> FALSE,
      inSingleQuoteString |-> FALSE, inDoubleQuoteString |-> FALSE,
      inTemplateString |-> FALSE, escape |-> FALSE ]

inString(st) ==
    st.inSingleQuoteString \/ st.inDoubleQuoteString \/ st.inTemplateString

inComment(st) == st.inSingleLineComment \/ st.inMultiLineComment

\* scanChar, were a backslash an escape outside string literals too
scanChar_EscapeAnywhere(st, line, j) ==
    LET char == line[j]
        nextChar == IF j + 1 <= Len(line) THEN line[j + 1] ELSE ""
        keep(t) == [st |-> t, out |-> <<char>>, used |-> 1]
        drop(t, n) == [st |-> t, out |-> <<>>, used |-> n]
    IN  IF st.escape THEN keep([st EXCEPT !.escape = FALSE])
        ELSE IF char = "\\" THEN keep([st EXCEPT !.escape = TRUE])
        ELSE IF /\ ~inComment(st) /\ char = "'"
                /\ ~st.inDoubleQuoteString /\ ~st.inTemplateString
        THEN keep([st EXCEPT !.inSingleQuoteString = ~st.inSingleQuoteString])
        ELSE IF /\ ~inComment(st) /\ char = "\""
                /\ ~st.inSingleQuoteString /\ ~st.inTemplateString
        THEN keep([st EXCEPT !.inDoubleQuoteString = ~st.inDoubleQuoteString])
        ELSE IF /\ ~inComment(st) /\ char = BackQuote
                /\ ~st.inSingleQuoteString /\ ~st.inDoubleQuoteString
        THEN keep([st EXCEPT !.inTemplateString = ~st.inTemplateString])
        ELSE IF inString(st) THEN keep(st)
        ELSE IF ~inComment(st) /\ char = "/" /\ nextChar = "/"
        THEN drop([st EXCEPT !.inSingleLineComment = TRUE], 2)
        ELSE IF ~inComment(st) /\ char = "/" /\ nextChar = "*"
        THEN drop([st EXCEPT !.inMultiLineComment = TRUE], 2)
        ELSE IF /\ inComment(st) /\ st.inMultiLineComment
                /\ char = "*" /\ nextChar = "/"
        THEN drop([st EXCEPT !.inMultiLineComment = FALSE], 2)
        ELSE IF ~inComment(st) THEN keep(st)
        ELSE drop(st, 1)

\* One round of the loop over the characters of a line, at index j (from 1):
\* the new flags, the characters appended to processedLine and the number of
\* characters consumed (2 where the code does j++).
scanChar(st, line, j) ==
    LET char == line[j]
        nextChar == IF j + 1 <= Len(line) THEN line[j + 1] ELSE ""
        keep(t) == [st |-> t, out |-> <<char>>, used |-> 1]
        drop(t, n) == [st |-> t, out |-> <<>>, used |-> n]
    IN  IF st.escape THEN keep([st EXCEPT !.escape = FALSE])
        ELSE IF char = "\\" /\ inString(st) THEN keep([st EXCEPT !.escape = TRUE])
        ELSE IF /\ ~inComment(st) /\ char = "'"
                /\ ~st.inDoubleQuoteString /\ ~st.inTemplateString
        THEN keep([st EXCEPT !.inSingleQuoteString = ~st.inSingleQuoteString])
        ELSE IF /\ ~inComment(st) /\ char = "\""
                /\ ~st.inSingleQuoteString /\ ~st.inTemplateString
        THEN keep([st EXCEPT !.inDoubleQuoteString = ~st.inDoubleQuoteString])
        ELSE IF /\ ~inComment(st) /\ char = BackQuote
                /\ ~st.inSingleQuoteString /\ ~st.inDoubleQuoteString
        THEN keep([st EXCEPT !.inTemplateString = ~st.inTemplateString])
        ELSE IF inString(st) THEN keep(st)
        ELSE IF ~inComment(st) /\ char = "/" /\ nextChar = "/"
        THEN drop([st EXCEPT !.inSingleLineComment = TRUE], 2)
        ELSE IF ~inComment(st) /\ char = "/" /\ nextChar = "*"
        THEN drop([st EXCEPT !.inMultiLineComment = TRUE], 2)
        ELSE IF /\ inComment(st) /\ st.inMultiLineComment
                /\ char = "*" /\ nextChar = "/"
        THEN drop([st EXCEPT !.inMultiLineComment = FALSE], 2)
        ELSE IF ~inComment(st) THEN keep(st)
        ELSE drop(st, 1)

\* the loop over the characters of one line, from index j
RECURSIVE scanLine(_, _, _, _)
scanLine(st, line, j, processedLine) ==
    IF j > Len(line) THEN [st |-> st, processedLine |-> processedLine]
    ELSE LET r == scanChar(st, line, j)
         IN  scanLine(r.st, line, j + r.used, processedLine \o r.out)

\* String.prototype.trim() = ''
trimIsEmpty(s) == trim(s) = <<>>

\* scanLines, were a line that ends inside a block comment never pushed
RECURSIVE scanLines_DropOpeningLine(_, _, _)
scanLines_DropOpeningLine(st, lines, result) ==
    IF lines = <<>> THEN result
    ELSE LET r == scanLine(st, Head(lines), 1, <<>>)
             st1 == [r.st EXCEPT !.inSingleLineComment = FALSE]
             pushed == IF ~st1.inMultiLineComment
                       THEN Append(result, r.processedLine)
                       ELSE result
         IN  scanLines_DropOpeningLine(st1, Tail(lines), pushed)

\* the loop over the lines: the flags carry over from line to line
RECURSIVE scanLines(_, _, _)
scanLines(st, lines, result) ==
    IF lines = <<>> THEN result
    ELSE LET r == scanLine(st, Head(lines), 1, <<>>)
             st1 == [r.st EXCEPT !.inSingleLineComment = FALSE]
             pushed == IF ~st1.inMultiLineComment \/ ~trimIsEmpty(r.processedLine)
                       THEN Append(result, r.processedLine)
                       ELSE result
         IN  scanLines(st1, Tail(lines), pushed)

\* the flags when the loop over the characters has handled the last character
\* of the last of the lines (the flags carry over from line to line, and the
\* end of a line clears inSingleLineComment)
RECURSIVE scanFlags(_, _)
scanFlags(st, lines) ==
    LET r == scanLine(st, Head(lines), 1, <<>>)
    IN  IF Len(lines) = 1 THEN r.st
        ELSE scanFlags([r.st EXCEPT !.inSingleLineComment = FALSE], Tail(lines))

\* removeTypeScriptComments joining the lines without the line break
removeTypeScriptComments_JoinNoBreak(content) ==
    Join(scanLines(ScanStart, Split(content, "\n"), <<>>), <<>>)

removeTypeScriptComments(content) ==
    Join(scanLines(ScanStart, Split(content, "\n"), <<>>), <<"\n">>)

removeJsonComments(content) == removeTypeScriptComments(content)

(***************************************************************************)
(* comment stripper module: removeExcessiveEmptyLines, stripSqlComments    *)
(***************************************************************************)
\* index of the first position >= i where pat occurs in s, or 0
RECURSIVE IndexOf(_, _, _)
IndexOf(s, pat, i) ==
    IF i + Len(pat) - 1 > Len(s) THEN 0
    ELSE IF SubSeq(s, i, i + Len(pat) - 1) = pat THEN i
    ELSE IndexOf(s, pat, i + 1)

\* content.replace(/--[^\n]*/g, ''), scanning from index i
RECURSIVE removeLineComments(_, _)
removeLineComments(s, i) ==
    IF i > Len(s) THEN <<>>
    ELSE IF i + 1 <= Len(s) /\ s[i] = "-" /\ s[i + 1] = "-"
    THEN LET nl == IndexOf(s, <<"\n">>, i)
         IN  IF nl = 0 THEN <<>> ELSE removeLineComments(s, nl)
    ELSE <<s[i]>> \o removeLineComments(s, i + 1)

\* removeBlockComments, were a blank put in the place of a comment
RECURSIVE removeBlockComments_LeavesBlank(_, _)
removeBlockComments_LeavesBlank(s, i) ==
    IF i > Len(s) THEN <<>>
    ELSE IF i + 1 <= Len(s) /\ s[i] = "/" /\ s[i + 1] = "*"
                            /\ IndexOf(s, <<"*", "/">>, i + 2) # 0
    THEN <<" ">> \o removeBlockComments_LeavesBlank(
                        s, IndexOf(s, <<"*", "/">>, i + 2) + 2)
    ELSE <<s[i]>> \o removeBlockComments_LeavesBlank(s, i + 1)

\* result.replace(/\/\*[\s\S]*?\*\//g, ''), scanning from index i
RECURSIVE removeBlockComments(_, _)
removeBlockComments(s, i) ==
    IF i > Len(s) THEN <<>>
    ELSE IF i + 1 <= Len(s) /\ s[i] = "/" /\ s[i + 1] = "*"
                            /\ IndexOf(s, <<"*", "/">>, i + 2) # 0
    THEN removeBlockComments(s, IndexOf(s, <<"*", "/">>, i + 2) + 2)
    ELSE <<s[i]>> \o removeBlockComments(s, i + 1)

\* the line terminators of a multiline regular expression (^ and $ with /m)
LineTerminators == {"\n", "\r"}

\* content.replace(/^[ \t]+$/gm, ''), scanning from index i: a run of spaces
\* and tabs that starts at a line start and ends at a line end is removed
RECURSIVE BlankRunEnd(_, _)
BlankRunEnd(s, i) ==
    IF i <= Len(s) /\ s[i] \in {" ", "\t"} THEN BlankRunEnd(s, i + 1) ELSE i

RECURSIVE removeBlankLineContent(_, _)
removeBlankLineContent(s, i) ==
    IF i > Len(s) THEN <<>>
    ELSE LET atLineStart == i = 1 \/ s[i - 1] \in LineTerminators
             e == BlankRunEnd(s, i)
             atLineEnd == e > Len(s) \/ s[e] \in LineTerminators
         IN  IF atLineStart /\ e > i /\ atLineEnd
             THEN removeBlankLineContent(s, e)
             ELSE <<s[i]>> \o removeBlankLineContent(s, i + 1)

\* the end (exclusive) of one (\r?\n) at index i, or 0 when there is none
NewlineEnd(s, i) ==
    IF i <= Len(s) /\ s[i] = "\n" THEN i + 1
    ELSE IF i + 1 <= Len(s) /\ s[i] = "\r" /\ s[i + 1] = "\n" THEN i + 2
    ELSE 0

\* the greedy (\r?\n)* from index i: [n |-> how many, e |-> end (exclusive)]
RECURSIVE NewlineRun(_, _, _)
NewlineRun(s, i, n) ==
    IF NewlineEnd(s, i) = 0 THEN [n |-> n, e |-> i]
    ELSE NewlineRun(s, NewlineEnd(s, i), n + 1)

\* result.replace(/(\r?\n){3,}/g, '\n\n'), scanning from index i
RECURSIVE collapseNewlines(_, _)
collapseNewlines(s, i) ==
    IF i > Len(s) THEN <<>>
    ELSE LET run == NewlineRun(s, i, 0)
         IN  IF run.n >= 3
             THEN <<"\n", "\n">> \o collapseNewlines(s, run.e)
             ELSE <<s[i]>> \o collapseNewlines(s, i + 1)

removeExcessiveEmptyLines(content) ==
    collapseNewlines(removeBlankLineContent(content, 1), 1)

stripSqlComments(content) ==
    removeExcessiveEmptyLines(
        removeBlockComments(removeLineComments(content, 1), 1))

(***************************************************************************)
(* Comment-stripper module: stripComments.  The decomment and              *)
(* strip-json-comments packages are not part of the repository: a call of  *)
(* one of them returns some string or throws.                              *)
(***************************************************************************)
FileTypes ==
    {"JAVASCRIPT", "TYPESCRIPT", "JAVA", "CSHARP", "PHP", "SQL", "JSON",
     "UNSUPPORTED"}

\* the cases of the switch that call decomment
DecommentTypes == {"JAVASCRIPT", "TYPESCRIPT", "JAVA", "CSHARP", "PHP"}

Returned(v) == [kind |-> "return", value |-> v]

Thrown == [kind |-> "throw", value |-> <<>>]

\* the block of the try; lib is what the library call does when it is made
stripCommentsTry(content, fileType, lib) ==
    IF fileType \in DecommentTypes \cup {"JSON"}
    THEN IF lib.kind = "throw" THEN Thrown
         ELSE Returned(removeExcessiveEmptyLines(lib.value))
    ELSE IF fileType = "SQL" THEN Returned(stripSqlComments(content))
    ELSE Returned(content)

\* stripComments, were the exception of the library not caught
stripComments_NoCatch(content, fileType, lib) ==
    stripCommentsTry(content, fileType, lib)

stripComments(content, fileType, lib) ==
    LET r == stripCommentsTry(content, fileType, lib)
    IN  IF r.kind = "throw" THEN Returned(content) ELSE r

(***************************************************************************)
(* Inputs of the two filters.                                              *)
(***************************************************************************)
PathChars == {"/", "\\", ".", "a"}

RuleChars == {"/", ".", "a"}

\* the same path as a Windows platform writes it
Windows(s) == [i \in 1..Len(s) |-> IF s[i] = "/" THEN "\\" ELSE s[i]]

GenericPaths == Str(PathChars, MaxPathLen)

\* rules are the trimmed, non-empty lines of the rules file
GenericRules(n) == Str(RuleChars, n) \ {<<>>}

RECURSIVE RuleListsOf(_, _)
RuleListsOf(k, c) ==
    IF k = 0 \/ c = 0 THEN {<<>>}
    ELSE {<<>>} \cup
         UNION { {<<r>> \o L : L \in RuleListsOf(k - 1, c - Len(r))} :
                 r \in GenericRules(c) }

GenericRuleLists == RuleListsOf(MaxRules, MaxRuleChars)

sLICENSE == <<"L", "I", "C", "E", "N", "S", "E">>
sLICENSEmd == <<"L", "I", "C", "E", "N", "S", "E", ".", "m", "d">>
sDocs == <<"d", "o", "c", "s">>
sNotesTxt == <<"n", "o", "t", "e", "s", ".", "t", "x", "t">>
sNodeModules == <<"n", "o", "d", "e", "_", "m", "o", "d", "u", "l", "e", "s">>
sMyThing ==
    <<"m", "y", "-", "n", "o", "d", "e", "_", "m", "o", "d", "u", "l", "e", "s",
      "-", "t", "h", "i", "n", "g">>
sFooSpecTs == <<"f", "o", "o", ".", "s", "p", "e", "c", ".", "t", "s">>
sFooSpecTsBak ==
    <<"f", "o", "o", ".", "s", "p", "e", "c", ".", "t", "s", ".", "b", "a", "k">>
sStarSpecTs == <<"*", ".", "s", "p", "e", "c", ".", "t", "s">>
sDistOld == <<"d", "i", "s", "t", ".", "o", "l", "d">>
sA == <<"a">>
sB == <<"b">>
sC == <<"c">>
sAPlusStarTs == <<"a", "+", "*", ".", "t", "s">>
sAPlusXTs == <<"a", "+", "x", ".", "t", "s">>
sAaxTs == <<"a", "a", "x", ".", "t", "s">>
sStarParen == <<"*", "(">>
sPlusStar == <<"+", "*">>

ExampleSegs ==
    { sLICENSE, sLICENSEmd, sDocs, sNotesTxt, sNodeModules, sMyThing,
      sFooSpecTs, sFooSpecTsBak, sDistOld, sA }

RECURSIVE SegLists(_)
SegLists(n) ==
    IF n = 0 THEN {<<>>}
    ELSE SegLists(n - 1) \cup
         {Append(l, g) : l \in {m \in SegLists(n - 1) : Len(m) = n - 1},
                         g \in ExampleSegs}

ExamplePaths ==
    {Join(l, <<"/">>) : l \in SegLists(MaxSegs) \ {<<>>}}
    \cup { Join(<<sA, sNodeModules, sB, sC>>, <<"/">>),
            Join(<<sA, sB, sFooSpecTs>>, <<"/">>),
            sAPlusXTs, sAaxTs, Join(<<sA, sAaxTs>>, <<"/">>),
            Windows(Join(<<sA, sNodeModules>>, <<"/">>)) }

ExampleRuleLists ==
    { <<sLICENSE>>, <<sNodeModules>>, <<sStarSpecTs>>, <<sDistOld \o <<"/">>>>,
      <<sAPlusStarTs>>, <<sStarParen>>, <<sPlusStar>>, <<sFooSpecTs, sStarParen>>,
      <<sDistOld>>, <<sA, sNodeModules>>, <<Windows(Join(<<sA, sNodeModules>>, <<"/">>))>> }

(***************************************************************************)
(* The filters as operations: a call of either filter on an input.         *)
(***************************************************************************)
FilterIdle == fPath = <<>> /\ fRules = <<>> /\ fCall = "none" /\ fResult = FALSE
    /\ fThrew = FALSE

EnvIdle == eDir = <<>> /\ eName = <<>> /\ eCall = "none" /\ eResult = FALSE

TsIdle == tIn = <<>> /\ tFn = "none" /\ tCalls = 0 /\ tOnce = <<>> /\ tTwice = <<>>

SqlIdle == qIn = <<>> /\ qCalls = 0 /\ qOnce = <<>> /\ qTwice = <<>>

NoOutcome == [kind |-> "none", value |-> <<>>]

StripIdle ==
    /\ sIn = <<>> /\ sType = "UNSUPPORTED" /\ sLib = NoOutcome
    /\ sCall = "none" /\ sResult = NoOutcome

NoStats == [dirs |-> 0, files |-> 0, skipped |-> 0, envFiles |-> 0]

WalkIdle ==
    /\ tree = {} /\ blacklistFile = "missing" /\ includeEnvFiles = FALSE
    /\ mainPc = "idle" /\ blacklist = <<>> /\ stack = <<>>
    /\ output = <<>> /\ shadow = <<>> /\ stats = NoStats
    /\ readLog = <<>> /\ listLog = <<>> /\ errors = 0 /\ streamEnds = 0
    /\ errorLog = <<>> /\ listData = <<>> /\ readData = <<>> /\ exitCode = -1

FilterInit ==
    /\ \/ fPath \in GenericPaths /\ fRules \in GenericRuleLists
       \/ fPath \in ExamplePaths /\ fRules \in ExampleRuleLists
    /\ fCall = "none"
    /\ fResult = FALSE
    /\ fThrew = FALSE
    /\ EnvIdle /\ TsIdle /\ SqlIdle /\ StripIdle /\ WalkIdle /\ platformSep = "/"

CallIsBlacklisted ==
    /\ fCall = "none"
    /\ fCall' = "isBlacklisted"
    /\ fResult' = isBlacklisted(fPath, fRules)
    /\ UNCHANGED <<fPath, fRules, fThrew, envVars, tsVars, sqlVars, stripVars,
                   walkVars>>

CallShouldExcludeFile ==
    /\ fCall = "none"
    /\ fCall' = "shouldExcludeFile"
    /\ fResult' = (shouldExcludeFile(fPath, fRules) = "true")
    /\ fThrew' = (shouldExcludeFile(fPath, fRules) = "throws")
    /\ UNCHANGED <<fPath, fRules, envVars, tsVars, sqlVars, stripVars, walkVars>>

FilterNext == CallIsBlacklisted \/ CallShouldExcludeFile

SpecFilter == FilterInit /\ [][FilterNext]_vars

(***************************************************************************)
(* isEnvFile as an operation: a call on the path of a directory entry.     *)
(***************************************************************************)
NameChars == {".", "e", "n", "v", "E", "x"}

sEnvProduction ==
    <<".", "e", "n", "v", ".", "p", "r", "o", "d", "u", "c", "t", "i", "o", "n">>
sMyappEnv == <<"m", "y", "a", "p", "p", ".", "e", "n", "v">>
sEnvironmentTs ==
    <<"e", "n", "v", "i", "r", "o", "n", "m", "e", "n", "t", ".", "t", "s">>
sXEnv == <<"x", ".", "e", "n", "v">>
sEnvD == <<".", "e", "n", "v", ".", "d">>

ExampleNames == {sDotEnv, sEnvProduction, sMyappEnv, sEnvironmentTs, <<".", "E", "N", "V">>}

\* entry names are non-empty and hold no separator
EnvNames == (Str(NameChars, MaxNameLen) \ {<<>>}) \cup ExampleNames

EnvDirs == {<<>>, sA, sXEnv, sEnvD, sA \o <<"/">> \o sDotEnv}

EnvInit ==
    /\ platformSep \in {"/", "\\"}
    /\ eDir \in EnvDirs
    /\ eName \in EnvNames
    /\ eCall = "none"
    /\ eResult = FALSE
    /\ FilterIdle /\ TsIdle /\ SqlIdle /\ StripIdle /\ WalkIdle

CallIsEnvFile ==
    /\ eCall = "none"
    /\ eCall' = "isEnvFile"
    /\ eResult' = isEnvFile(pathJoin(eDir, eName))
    /\ UNCHANGED <<eDir, eName, filterVars, tsVars, sqlVars, stripVars, walkVars>>

EnvNext == CallIsEnvFile

SpecEnv == EnvInit /\ [][EnvNext]_vars

(***************************************************************************)
(* The c-style stripper as an operation, applied once and once more.       *)
(***************************************************************************)
TsChars == {"/", "*", "\"", "'", "\\", "\n", "a", " "}

sConstU ==
    <<"c", "o", "n", "s", "t", " ", "u", " ", "=", " ",
      "\"", "h", "t", "t", "p", ":", "/", "/", "x", "\"">>

\* a string literal continued over a line break, holding an escaped quote
\* and two slashes
sContinued == <<"\"", "\\", "\n", "\\", "\"", "/", "/", "\"">>

ExampleContents ==
    { sConstU,
      <<"a", BackQuote, "/", "/", "a", BackQuote, "/", "/", "a">>,
      <<"a", BackQuote, "/", "*", BackQuote, "a", "/", "*", "a", "*", "/">>,
      <<"a", "'", "\\", "'", "/", "/", "'", "/", "/", "a">>,
      <<"a", "/", "*", "a", "\n", " ", "\n", "a", "*", "/", "a", "\n", "a">>,
      <<" ", "/", "*", "a", "\n", "*", "/", "a">>,
      <<"'", "\\", "'", "'", "/", "/", "\n", "a">>,
      <<"a", "\n", "/", "*", "\n", "'", "\n", "*", "/">>,
      sContinued }

TsContents == Str(TsChars, MaxTsLen) \cup ExampleContents

TsInit ==
    /\ tIn \in TsContents
    /\ tFn = "none"
    /\ tCalls = 0
    /\ tOnce = <<>>
    /\ tTwice = <<>>
    /\ FilterIdle /\ EnvIdle /\ SqlIdle /\ StripIdle /\ WalkIdle /\ platformSep = "/"

StripTypeScript ==
    /\ tCalls = 0
    /\ tFn' = "typescript"
    /\ tCalls' = 1
    /\ tOnce' = removeTypeScriptComments(tIn)
    /\ UNCHANGED <<tIn, tTwice, filterVars, envVars, sqlVars, stripVars, walkVars>>

StripJson ==
    /\ tCalls = 0
    /\ tFn' = "json"
    /\ tCalls' = 1
    /\ tOnce' = removeJsonComments(tIn)
    /\ UNCHANGED <<tIn, tTwice, filterVars, envVars, sqlVars, stripVars, walkVars>>

StripTypeScriptAgain ==
    /\ tCalls = 1
    /\ tFn = "typescript"
    /\ tCalls' = 2
    /\ tTwice' = removeTypeScriptComments(tOnce)
    /\ UNCHANGED <<tIn, tFn, tOnce, filterVars, envVars, sqlVars, stripVars, walkVars>>

StripJsonAgain ==
    /\ tCalls = 1
    /\ tFn = "json"
    /\ tCalls' = 2
    /\ tTwice' = removeJsonComments(tOnce)
    /\ UNCHANGED <<tIn, tFn, tOnce, filterVars, envVars, sqlVars, stripVars, walkVars>>

TsNext == StripTypeScript \/ StripJson \/ StripTypeScriptAgain \/ StripJsonAgain

SpecTs == TsInit /\ [][TsNext]_vars

(***************************************************************************)
(* The SQL stripper as an operation, applied once and once more.           *)
(***************************************************************************)
SqlChars == {"-", "/", "*", "\n", "a"}

\* code behind a block comment whose body holds two dashes
sDashesInBlock == <<"/", "*", "-", "-", "*", "/", "a">>

ExampleSqlContents ==
    { sDashesInBlock,
      <<"a", "\r", "\n", "\r", "\n", "\r", "\n", "a">>,
      <<"a", "/", "*", "\n", "-", "-", "a", "\n", "*", "/", "a">> }

SqlContents == Str(SqlChars, MaxSqlLen) \cup ExampleSqlContents

SqlInit ==
    /\ qIn \in SqlContents
    /\ qCalls = 0
    /\ qOnce = <<>>
    /\ qTwice = <<>>
    /\ FilterIdle /\ EnvIdle /\ TsIdle /\ StripIdle /\ WalkIdle /\ platformSep = "/"

StripSql ==
    /\ qCalls = 0
    /\ qCalls' = 1
    /\ qOnce' = stripSqlComments(qIn)
    /\ UNCHANGED <<qIn, qTwice, filterVars, envVars, tsVars, stripVars, walkVars>>

StripSqlAgain ==
    /\ qCalls = 1
    /\ qCalls' = 2
    /\ qTwice' = stripSqlComments(qOnce)
    /\ UNCHANGED <<qIn, qOnce, filterVars, envVars, tsVars, stripVars, walkVars>>

SqlNext == StripSql \/ StripSqlAgain

SpecSql == SqlInit /\ [][SqlNext]_vars

\* either stripper, applied to a content of its own
SpecStrippers == (TsInit \/ SqlInit) /\ [][TsNext \/ SqlNext]_vars

(***************************************************************************)
(* Calls of removeExcessiveEmptyLines and stripComments.                   *)
(***************************************************************************)
BlankChars == {"\n", " ", "a"}

sFiveBlank == <<"a", "\n", "\n", "\n", "\n", "\n", "\n", "b">>

sCrLfBlank == <<"a", "\r", "\n", "\r", "\n", "\r", "\n", "\r", "\n", "b">>

sTabBlank == <<"a", "\n", "\t", "\n", " ", "\t", "\n", "\n", "b", "\n">>

sOneBlank == <<"a", "\n", "\n", "b", "\n", "\n", "c", "\n">>

ExampleBlankContents == {sFiveBlank, sCrLfBlank, sTabBlank, sOneBlank}

StripContents == Str(BlankChars, MaxBlankLen) \cup ExampleBlankContents

\* what the library may do with a content
LibOutcomes(content) ==
    {Thrown} \cup {Returned(v) : v \in {content, <<>>, sFiveBlank}}

StripInit ==
    /\ sIn \in StripContents
    /\ sType \in FileTypes
    /\ sLib = NoOutcome
    /\ sCall = "none"
    /\ sResult = NoOutcome
    /\ FilterIdle /\ EnvIdle /\ TsIdle /\ SqlIdle /\ WalkIdle /\ platformSep = "/"

CallRemoveExcessiveEmptyLines ==
    /\ sCall = "none"
    /\ sCall' = "removeExcessiveEmptyLines"
    /\ sResult' = Returned(removeExcessiveEmptyLines(sIn))
    /\ UNCHANGED <<sIn, sType, sLib, filterVars, envVars, tsVars, sqlVars, walkVars>>

CallStripComments ==
    /\ sCall = "none"
    /\ sCall' = "stripComments"
    /\ \E lib \in LibOutcomes(sIn) :
          /\ sLib' = IF sType \in DecommentTypes \cup {"JSON"} THEN lib ELSE NoOutcome
          /\ sResult' = stripComments(sIn, sType, lib)
    /\ UNCHANGED <<sIn, sType, filterVars, envVars, tsVars, sqlVars, walkVars>>

StripNext == CallRemoveExcessiveEmptyLines \/ CallStripComments

SpecStrip == StripInit /\ [][StripNext]_vars

(***************************************************************************)
(* scanner.ts: main and scanDirectory.                                     *)
(*                                                                         *)
(* A node of the tree is the sequence of entry names that leads to it from *)
(* the target directory.  Every await of the code ends an action: the call *)
(* of readdir and of safeReadFile are answered by actions of their own,    *)
(* which succeed or fail as the file system decides.                       *)
(***************************************************************************)
sDX == <<"d", ".", "x">>
sBTxt == <<"b", ".", "t", "x", "t">>
sL == <<"l">>

DirNames == {sA, sDX}
FileNames == {sDotEnv, sBTxt}
LinkNames == {sL}
EntryNames == DirNames \cup FileNames \cup LinkNames

\* isDirectoryEntry, were a symbolic link taken for a directory
isDirectoryEntry_FollowsLinks(name) == name \in DirNames \cup LinkNames

\* Dirent.isDirectory(): false for files and for symbolic links
isDirectoryEntry(name) == name \in DirNames

Parent(node) == SubSeq(node, 1, Len(node) - 1)

RECURSIVE NodesAt(_)
NodesAt(d) ==
    IF d = 1 THEN {<<n>> : n \in EntryNames}
    ELSE {Append(q, n) : q \in {r \in NodesAt(d - 1) : isDirectoryEntry(Last(r))},
                         n \in EntryNames}

AllNodes == UNION {NodesAt(d) : d \in 1..MaxDepth}

RECURSIVE TreesOf(_)
TreesOf(n) ==
    IF n = 0 THEN {{}}
    ELSE LET T == TreesOf(n - 1)
         IN  T \cup UNION { {t \cup {q} :
                               q \in {r \in AllNodes :
                                        /\ r \notin t
                                        /\ Len(r) = 1 \/ Parent(r) \in t}} :
                            t \in T }

Children(dir) == {node \in tree : Parent(node) = dir}

\* the orders in which readdir may list a set of nodes
Orders(S) ==
    {o \in [1..Cardinality(S) -> {Last(node) : node \in S}] :
        \A i, j \in 1..Cardinality(S) : i # j => o[i] # o[j]}

TargetDir == <<"r">>

\* path.relative(basePath, fullPath) of a node
relativeOf(node) == Join(node, <<platformSep>>)

fullPathOf(node) == pathJoin(TargetDir, relativeOf(node))

\* relativePathOf, were the separators of the platform kept
relativePathOf_Native(node) == relativeOf(node)

relativePathOf(node) == ReplaceBackslashes(relativeOf(node))

\* the fixed texts of the output (lines 217, 228, 244) and of safeReadFile
\* (line 154), in the source written in Bulgarian; each is one character here
mEnvSkipped == "[.env file - content skipped]"
mEnvBegin == "### Content of .env file ###"
mEnvEnd == "### End of .env file ###"
mBinary == "[Binary or non-text content not shown]"
mReadError == "[Error reading the file]"

PathLine(node) == relativePathOf(node) \o <<"\n">>

EnvSkippedText == <<mEnvSkipped, "\n", "\n">>

EnvText(content) == <<mEnvBegin, "\n">> \o content \o <<"\n", mEnvEnd, "\n", "\n">>

BinaryText == <<mBinary, "\n", "\n">>

FileText(content) == content \o <<"\n", "\n">>

\* what readFile may deliver
Contents ==
    { <<"K", "=", "1">>,
      <<"/", "/", "c", "\n", "\n", "\n", "\n", "x">> }

\* safeReadFile: the content, or the text of the failure
ReadResults == Contents \cup {<<mReadError>>}

RulesFiles ==
    { "missing",
      <<sA>>,
      <<sDX>>,
      << <<"#">> \o sA, <<" ">> \o sDotEnv \o <<" ">>, <<>> >>,
      << sA \o <<"\\">> \o sBTxt >> }

Init ==
    /\ platformSep \in {"/", "\\"}
    /\ tree \in TreesOf(MaxNodes)
    /\ blacklistFile \in RulesFiles
    /\ includeEnvFiles \in BOOLEAN
    /\ mainPc = "start"
    /\ blacklist = <<>>
    /\ stack = <<>>
    /\ output = <<>>
    /\ shadow = <<>>
    /\ stats = NoStats
    /\ readLog = <<>>
    /\ listLog = <<>>
    /\ errors = 0
    /\ streamEnds = 0
    /\ errorLog = <<>>
    /\ listData = <<>>
    /\ readData = <<>>
    /\ exitCode = -1
    /\ FilterIdle /\ EnvIdle /\ TsIdle /\ SqlIdle /\ StripIdle

pureVars == <<filterVars, envVars, tsVars, sqlVars, stripVars>>

inputVars == <<platformSep, tree, blacklistFile, includeEnvFiles>>

\* a call of scanDirectory: readdir is called and awaited
Frame(dir) == [dir |-> dir, entries |-> <<>>, i |-> 0, pc |-> "readdir"]

\* main up to its await of scanDirectory(targetDir, ...)
MainStart ==
    /\ mainPc = "start"
    /\ mainPc' = "scan"
    /\ blacklist' = readBlacklist(blacklistFile)
    /\ stack' = <<Frame(<<>>)>>
    /\ listLog' = Append(listLog, <<>>)
    /\ UNCHANGED <<output, shadow, stats, readLog, errors, streamEnds>>
    /\ UNCHANGED <<inputVars, pureVars>>
    /\ UNCHANGED histVars

Top == stack[Len(stack)]

Running == mainPc = "scan" /\ stack # <<>>

\* the loop is about to handle entry i
AtEntry == Running /\ Top.pc = "loop" /\ Top.i <= Len(Top.entries)

entryNode == Append(Top.dir, Top.entries[Top.i])

\* the loop goes on with the next entry
NextEntry(st) == [st EXCEPT ![Len(st)].i = @ + 1, ![Len(st)].pc = "loop"]

\* scanDirectory returns: its caller goes on after its await
Return(st) ==
    LET rest == SubSeq(st, 1, Len(st) - 1)
    IN  IF rest = <<>> THEN rest ELSE NextEntry(rest)

Write(texts) == output' = output \o texts /\ shadow' = shadow \o texts

\* what a call of readdir delivers
Listing(order) == [ok |-> TRUE, entries |-> order]

ListingFailed == [ok |-> FALSE, entries |-> <<>>]

\* readdir delivers the entries, in some order
ReaddirDone ==
    /\ Running /\ Top.pc = "readdir"
    /\ \E order \in Orders(Children(Top.dir)) :
          /\ stack' = [stack EXCEPT ![Len(stack)] =
                          [@ EXCEPT !.entries = order, !.i = 1, !.pc = "loop"]]
          /\ listData' = Append(listData, Listing(order))
    /\ UNCHANGED <<mainPc, blacklist, output, shadow, stats, readLog, listLog,
                   errors, streamEnds>>
    /\ UNCHANGED <<inputVars, pureVars>>
    /\ UNCHANGED <<errorLog, readData, exitCode>>

\* ReaddirFails, were the failure thrown on to every caller
ReaddirFails_Propagates ==
    /\ Running /\ Top.pc = "readdir"
    /\ errors' = errors + 1
    /\ errorLog' = Append(errorLog, Top.dir)
    /\ listData' = Append(listData, ListingFailed)
    /\ stack' = <<>>
    /\ UNCHANGED <<mainPc, blacklist, output, shadow, stats, readLog, listLog,
                   streamEnds>>
    /\ UNCHANGED <<inputVars, pureVars>>
    /\ UNCHANGED <<readData, exitCode>>

\* readdir fails: the catch of scanDirectory logs it and the call returns
ReaddirFails ==
    /\ Running /\ Top.pc = "readdir"
    /\ errors' = errors + 1
    /\ errorLog' = Append(errorLog, Top.dir)
    /\ listData' = Append(listData, ListingFailed)
    /\ stack' = Return(stack)
    /\ UNCHANGED <<mainPc, blacklist, output, shadow, stats, readLog, listLog,
                   streamEnds>>
    /\ UNCHANGED <<inputVars, pureVars>>
    /\ UNCHANGED <<readData, exitCode>>

\* SkipEntry, were the loop to go into a directory it has skipped
SkipEntry_Descends ==
    /\ AtEntry
    /\ isBlacklisted(relativePathOf(entryNode), blacklist)
    /\ stats' = [stats EXCEPT !.skipped = @ + 1]
    /\ IF isDirectoryEntry(Last(entryNode))
       THEN /\ stack' = Append([stack EXCEPT ![Len(stack)].pc = "await"],
                               Frame(entryNode))
            /\ listLog' = Append(listLog, entryNode)
       ELSE /\ stack' = NextEntry(stack)
            /\ listLog' = listLog
    /\ UNCHANGED <<mainPc, blacklist, output, shadow, readLog, errors, streamEnds>>
    /\ UNCHANGED <<inputVars, pureVars>>
    /\ UNCHANGED histVars

\* the entry is in the blacklist
SkipEntry ==
    /\ AtEntry
    /\ isBlacklisted(relativePathOf(entryNode), blacklist)
    /\ stats' = [stats EXCEPT !.skipped = @ + 1]
    /\ stack' = NextEntry(stack)
    /\ UNCHANGED <<mainPc, blacklist, output, shadow, readLog, listLog, errors,
                   streamEnds>>
    /\ UNCHANGED <<inputVars, pureVars>>
    /\ UNCHANGED histVars

\* the entry is a directory: scanDirectory is called on it and awaited
EnterDirectory ==
    /\ AtEntry
    /\ ~isBlacklisted(relativePathOf(entryNode), blacklist)
    /\ isDirectoryEntry(Last(entryNode))
    /\ Write(<<PathLine(entryNode)>>)
    /\ stats' = [stats EXCEPT !.dirs = @ + 1]
    /\ stack' = Append([stack EXCEPT ![Len(stack)].pc = "await"], Frame(entryNode))
    /\ listLog' = Append(listLog, entryNode)
    /\ UNCHANGED <<mainPc, blacklist, readLog, errors, streamEnds>>
    /\ UNCHANGED <<inputVars, pureVars>>
    /\ UNCHANGED histVars

\* WithholdEnvFile, were a .env file counted only when its content is included
WithholdEnvFile_NotCounted ==
    /\ AtEntry
    /\ ~isBlacklisted(relativePathOf(entryNode), blacklist)
    /\ ~isDirectoryEntry(Last(entryNode))
    /\ isEnvFile(fullPathOf(entryNode))
    /\ ~includeEnvFiles
    /\ Write(<<PathLine(entryNode), EnvSkippedText>>)
    /\ stats' = [stats EXCEPT !.files = @ + 1]
    /\ stack' = NextEntry(stack)
    /\ UNCHANGED <<mainPc, blacklist, readLog, listLog, errors, streamEnds>>
    /\ UNCHANGED <<inputVars, pureVars>>
    /\ UNCHANGED histVars

\* the entry is a .env file and --env is off
WithholdEnvFile ==
    /\ AtEntry
    /\ ~isBlacklisted(relativePathOf(entryNode), blacklist)
    /\ ~isDirectoryEntry(Last(entryNode))
    /\ isEnvFile(fullPathOf(entryNode))
    /\ ~includeEnvFiles
    /\ Write(<<PathLine(entryNode), EnvSkippedText>>)
    /\ stats' = [stats EXCEPT !.files = @ + 1, !.envFiles = @ + 1]
    /\ stack' = NextEntry(stack)
    /\ UNCHANGED <<mainPc, blacklist, readLog, listLog, errors, streamEnds>>
    /\ UNCHANGED <<inputVars, pureVars>>
    /\ UNCHANGED histVars

\* StartReadEnvFile, were a .env file read only when isTextFile accepts it
StartReadEnvFile_TextOnly ==
    /\ AtEntry
    /\ ~isBlacklisted(relativePathOf(entryNode), blacklist)
    /\ ~isDirectoryEntry(Last(entryNode))
    /\ isEnvFile(fullPathOf(entryNode))
    /\ includeEnvFiles
    /\ stats' = [stats EXCEPT !.files = @ + 1, !.envFiles = @ + 1]
    /\ IF isTextFile(fullPathOf(entryNode))
       THEN /\ Write(<<PathLine(entryNode)>>)
            /\ stack' = [stack EXCEPT ![Len(stack)].pc = "readEnv"]
            /\ readLog' = Append(readLog, entryNode)
       ELSE /\ Write(<<PathLine(entryNode), BinaryText>>)
            /\ stack' = NextEntry(stack)
            /\ readLog' = readLog
    /\ UNCHANGED <<mainPc, blacklist, listLog, errors, streamEnds>>
    /\ UNCHANGED <<inputVars, pureVars>>
    /\ UNCHANGED histVars

\* StartReadEnvFile, were --env not looked at
StartReadEnvFile_AnyFlag ==
    /\ AtEntry
    /\ ~isBlacklisted(relativePathOf(entryNode), blacklist)
    /\ ~isDirectoryEntry(Last(entryNode))
    /\ isEnvFile(fullPathOf(entryNode))
    /\ Write(<<PathLine(entryNode)>>)
    /\ stats' = [stats EXCEPT !.files = @ + 1, !.envFiles = @ + 1]
    /\ stack' = [stack EXCEPT ![Len(stack)].pc = "readEnv"]
    /\ readLog' = Append(readLog, entryNode)
    /\ UNCHANGED <<mainPc, blacklist, listLog, errors, streamEnds>>
    /\ UNCHANGED <<inputVars, pureVars>>
    /\ UNCHANGED histVars

\* the entry is a .env file and --env is on: safeReadFile is called and awaited
StartReadEnvFile ==
    /\ AtEntry
    /\ ~isBlacklisted(relativePathOf(entryNode), blacklist)
    /\ ~isDirectoryEntry(Last(entryNode))
    /\ isEnvFile(fullPathOf(entryNode))
    /\ includeEnvFiles
    /\ Write(<<PathLine(entryNode)>>)
    /\ stats' = [stats EXCEPT !.files = @ + 1, !.envFiles = @ + 1]
    /\ stack' = [stack EXCEPT ![Len(stack)].pc = "readEnv"]
    /\ readLog' = Append(readLog, entryNode)
    /\ UNCHANGED <<mainPc, blacklist, listLog, errors, streamEnds>>
    /\ UNCHANGED <<inputVars, pureVars>>
    /\ UNCHANGED histVars

\* safeReadFile returns for a .env file; in the tree of the shadow walk the
\* file may hold another content
ReadEnvDone ==
    /\ Running /\ Top.pc = "readEnv"
    /\ \E content \in ReadResults, other \in ReadResults :
          /\ (content = <<mReadError>>) <=> (other = <<mReadError>>)
          /\ output' = Append(output, EnvText(content))
          /\ shadow' = Append(shadow, EnvText(other))
          /\ readData' = Append(readData, content)
    /\ stack' = NextEntry(stack)
    /\ UNCHANGED <<mainPc, blacklist, stats, readLog, listLog, errors, streamEnds>>
    /\ UNCHANGED <<inputVars, pureVars>>
    /\ UNCHANGED <<errorLog, listData, exitCode>>

\* BinaryFile, were the file read like a text file
BinaryFile_Read ==
    /\ AtEntry
    /\ ~isBlacklisted(relativePathOf(entryNode), blacklist)
    /\ ~isDirectoryEntry(Last(entryNode))
    /\ ~isEnvFile(fullPathOf(entryNode))
    /\ ~isTextFile(fullPathOf(entryNode))
    /\ Write(<<PathLine(entryNode)>>)
    /\ stats' = [stats EXCEPT !.files = @ + 1]
    /\ stack' = [stack EXCEPT ![Len(stack)].pc = "readText"]
    /\ readLog' = Append(readLog, entryNode)
    /\ UNCHANGED <<mainPc, blacklist, listLog, errors, streamEnds>>
    /\ UNCHANGED <<inputVars, pureVars>>
    /\ UNCHANGED histVars

\* the entry is no .env file and no text file
BinaryFile ==
    /\ AtEntry
    /\ ~isBlacklisted(relativePathOf(entryNode), blacklist)
    /\ ~isDirectoryEntry(Last(entryNode))
    /\ ~isEnvFile(fullPathOf(entryNode))
    /\ ~isTextFile(fullPathOf(entryNode))
    /\ Write(<<PathLine(entryNode), BinaryText>>)
    /\ stats' = [stats EXCEPT !.files = @ + 1]
    /\ stack' = NextEntry(stack)
    /\ UNCHANGED <<mainPc, blacklist, readLog, listLog, errors, streamEnds>>
    /\ UNCHANGED <<inputVars, pureVars>>
    /\ UNCHANGED histVars

\* StartReadTextFile, were the loop to go on without awaiting the read
StartReadTextFile_NoAwait ==
    /\ AtEntry
    /\ ~isBlacklisted(relativePathOf(entryNode), blacklist)
    /\ ~isDirectoryEntry(Last(entryNode))
    /\ ~isEnvFile(fullPathOf(entryNode))
    /\ isTextFile(fullPathOf(entryNode))
    /\ Write(<<PathLine(entryNode)>>)
    /\ stats' = [stats EXCEPT !.files = @ + 1]
    /\ stack' = NextEntry(stack)
    /\ readLog' = Append(readLog, entryNode)
    /\ UNCHANGED <<mainPc, blacklist, listLog, errors, streamEnds>>
    /\ UNCHANGED <<inputVars, pureVars>>
    /\ UNCHANGED histVars

\* the entry is a text file: safeReadFile is called and awaited
StartReadTextFile ==
    /\ AtEntry
    /\ ~isBlacklisted(relativePathOf(entryNode), blacklist)
    /\ ~isDirectoryEntry(Last(entryNode))
    /\ ~isEnvFile(fullPathOf(entryNode))
    /\ isTextFile(fullPathOf(entryNode))
    /\ Write(<<PathLine(entryNode)>>)
    /\ stats' = [stats EXCEPT !.files = @ + 1]
    /\ stack' = [stack EXCEPT ![Len(stack)].pc = "readText"]
    /\ readLog' = Append(readLog, entryNode)
    /\ UNCHANGED <<mainPc, blacklist, listLog, errors, streamEnds>>
    /\ UNCHANGED <<inputVars, pureVars>>
    /\ UNCHANGED histVars

\* ReadTextDone, were the content stripped of its comments before it is written
ReadTextDone_Stripped ==
    /\ Running /\ Top.pc = "readText"
    /\ \E content \in ReadResults :
          /\ Write(<<FileText(removeExcessiveEmptyLines(
                                  removeTypeScriptComments(content)))>>)
          /\ readData' = Append(readData, content)
    /\ stack' = NextEntry(stack)
    /\ UNCHANGED <<mainPc, blacklist, stats, readLog, listLog, errors, streamEnds>>
    /\ UNCHANGED <<inputVars, pureVars>>
    /\ UNCHANGED <<errorLog, listData, exitCode>>

\* ReadTextDone, were a failed read thrown to the catch of scanDirectory
ReadTextDone_FailureThrown ==
    /\ Running /\ Top.pc = "readText"
    /\ \E content \in ReadResults :
          /\ readData' = Append(readData, content)
          /\ IF content = <<mReadError>>
             THEN /\ stack' = Return(stack)
                  /\ UNCHANGED <<output, shadow>>
             ELSE /\ stack' = NextEntry(stack)
                  /\ Write(<<FileText(content)>>)
    /\ UNCHANGED <<mainPc, blacklist, stats, readLog, listLog, errors, streamEnds>>
    /\ UNCHANGED <<inputVars, pureVars>>
    /\ UNCHANGED <<errorLog, listData, exitCode>>

\* safeReadFile returns for a text file
ReadTextDone ==
    /\ Running /\ Top.pc = "readText"
    /\ \E content \in ReadResults :
          /\ Write(<<FileText(content)>>)
          /\ readData' = Append(readData, content)
    /\ stack' = NextEntry(stack)
    /\ UNCHANGED <<mainPc, blacklist, stats, readLog, listLog, errors, streamEnds>>
    /\ UNCHANGED <<inputVars, pureVars>>
    /\ UNCHANGED <<errorLog, listData, exitCode>>

\* the loop is over: scanDirectory returns
ReturnFromScan ==
    /\ Running /\ Top.pc = "loop" /\ Top.i > Len(Top.entries)
    /\ stack' = Return(stack)
    /\ UNCHANGED <<mainPc, blacklist, output, shadow, stats, readLog, listLog,
                   errors, streamEnds>>
    /\ UNCHANGED <<inputVars, pureVars>>
    /\ UNCHANGED histVars

\* main after its await: the summary, and outputStream.end() in the finally;
\* main's promise is fulfilled, so its catch handler with process.exit(1) does
\* not run and the process ends with status 0
MainFinish ==
    /\ mainPc = "scan" /\ stack = <<>>
    /\ mainPc' = "done"
    /\ streamEnds' = streamEnds + 1
    /\ exitCode' = 0
    /\ UNCHANGED <<blacklist, stack, output, shadow, stats, readLog, listLog, errors>>
    /\ UNCHANGED <<inputVars, pureVars>>
    /\ UNCHANGED <<errorLog, listData, readData>>

Next ==
    \/ MainStart
    \/ ReaddirDone
    \/ ReaddirFails
    \/ SkipEntry
    \/ EnterDirectory
    \/ WithholdEnvFile
    \/ StartReadEnvFile
    \/ ReadEnvDone
    \/ BinaryFile
    \/ StartReadTextFile
    \/ ReadTextDone
    \/ ReturnFromScan
    \/ MainFinish

Spec == Init /\ [][Next]_vars

\* The walk under fair scheduling.  Every step of main and of scanDirectory
\* is either synchronous code, which runs to its next await, or the
\* completion of a pending readdir or readFile, which the event loop of the
\* platform delivers, as a result or as a failure: a step that stays
\* possible is taken.  This is weak fairness of Next, written out with
\* CanStep in the place of ENABLED <<Next>>_vars: the two are equal in every
\* state of the walk (CanStepIsEnabled).
CanStep == mainPc # "done"

CanStepIsEnabled == CanStep <=> ENABLED <<Next>>_vars

Fairness == []<>(~CanStep) \/ []<><<Next>>_vars

SpecFair == Init /\ [][Next]_vars /\ Fairness

(***************************************************************************)
(* Claims about the filters.                                               *)
(***************************************************************************)
NormPath == ReplaceBackslashes(fPath)

NormSegments == Split(NormPath, "/")

NoEdgeSlash(s) == s = <<>> \/ (Head(s) # "/" /\ Last(s) # "/")

EqualsRule(i) == NormPath = ReplaceBackslashes(fRules[i])

\* C1 as stated: whenever the path equals some rule once the backslashes of
\* both are converted, isBlacklisted returns true, for every path string.
C1_ExactMatchAnyPath ==
    fCall = "isBlacklisted" =>
        ((\E i \in 1..Len(fRules) : EqualsRule(i)) => fResult = TRUE)

\* C1 amended: whenever a path without a leading or trailing slash equals some
\* rule once the backslashes of both are converted, isBlacklisted returns true.
C1_ExactMatch ==
    fCall = "isBlacklisted" =>
        ((\E i \in 1..Len(fRules) : EqualsRule(i) /\ NoEdgeSlash(NormPath))
            => fResult = TRUE)

\* a path equal to the second of two rules, the first of which does not match
C1_Witness ==
    /\ fCall = "isBlacklisted"
    /\ Len(fRules) = 2
    /\ fRules[1] = <<"/">>
    /\ EqualsRule(2)
    /\ fPath = <<"a", ".">>
    /\ fResult = TRUE

NoSlash(r) == ~Includes(r, "/") /\ ~Includes(r, "\\")

\* a rule the filter takes for a directory: a word without a dot, or a dot
\* followed by such a word
DirectoryWord(r) ==
    /\ r # <<>>
    /\ NoSlash(r)
    /\ ~Includes(r, ".") \/ (Head(r) = "." /\ ~Includes(Tail(r), "."))

\* C2: for a single directory-like rule without slashes, such as
\* node_modules, isBlacklisted is true exactly when some '/'-delimited segment
\* of the path equals the rule.
C2_SegmentMatch ==
    (fCall = "isBlacklisted" /\ Len(fRules) = 1 /\ DirectoryWord(fRules[1])) =>
        (fResult <=> SeqIncludes(NormSegments, fRules[1]))

C2_Witness ==
    /\ fCall = "isBlacklisted"
    /\ fRules = <<sNodeModules>>
    /\ fPath = Join(<<sA, sNodeModules, sB, sC>>, <<"/">>)
    /\ fResult = TRUE

\* C3: with the single rule *.spec.ts, isBlacklisted excludes exactly the
\* paths whose basename ends with .spec.ts (foo.spec.ts, a/b/foo.spec.ts)
\* and not foo.spec.ts.bak.
C3_WildcardBasename ==
    (fCall = "isBlacklisted" /\ fRules = <<sStarSpecTs>>) =>
        (fResult <=> EndsWith(Last(NormSegments), Tail(sStarSpecTs)))

\* C4 as stated: with the single rule LICENSE, isBlacklisted excludes a path
\* exactly when its basename is LICENSE.
C4_BasenameOnly ==
    (fCall = "isBlacklisted" /\ fRules = <<sLICENSE>>) =>
        (fResult <=> Last(NormSegments) = sLICENSE)

\* C4 amended: with the single rule LICENSE, isBlacklisted excludes a path
\* exactly when some segment of it is LICENSE: LICENSE, docs/LICENSE and
\* LICENSE/notes.txt are excluded, LICENSE.md is not.
C4_LicenseRule ==
    (fCall = "isBlacklisted" /\ fRules = <<sLICENSE>>) =>
        (fResult <=> SeqIncludes(NormSegments, sLICENSE))

C4_Witness ==
    /\ fCall = "isBlacklisted"
    /\ fRules = <<sLICENSE>>
    /\ fPath = Join(<<sLICENSE, sNotesTxt>>, <<"/">>)
    /\ fResult = TRUE

\* the rule is written with a path separator at its end
EndsWithSeparator(r) == EndsWith(ReplaceBackslashes(r), <<"/">>)

\* C22: a rule that ends with a path separator excludes the path that equals
\* the rule without its edge slashes, every path that starts with it and a
\* slash, and every path with a segment equal to it, whatever else the rule
\* contains.
C22_TrailingSlashRule ==
    fCall = "isBlacklisted" =>
        \A i \in 1..Len(fRules) :
            LET item == normalizeItem(fRules[i])
            IN  (/\ EndsWithSeparator(fRules[i])
                 /\ item # <<>>
                 /\ \/ NormPath = item
                    \/ StartsWith(NormPath, item \o <<"/">>)
                    \/ SeqIncludes(NormSegments, item))
                => fResult

RECURSIVE GlobMatch(_, _)
\* the whole name matches the rule, a '*' of the rule standing for any run of
\* characters and every other character for itself
GlobMatch(rule, name) ==
    IF rule = <<>> THEN name = <<>>
    ELSE IF Head(rule) = "*"
    THEN \E k \in 0..Len(name) :
            GlobMatch(Tail(rule), SubSeq(name, k + 1, Len(name)))
    ELSE /\ name # <<>>
         /\ Head(name) = Head(rule)
         /\ GlobMatch(Tail(rule), Tail(name))

\* C23: shouldExcludeFile never throws, and with a single rule that contains
\* a '*' and no slash it returns true exactly when the whole basename matches
\* the rule, '*' standing for any run of characters and every other character
\* of the rule for itself.
C23_WildcardLiteral ==
    fCall = "shouldExcludeFile" =>
        /\ ~fThrew
        /\ (/\ Len(fRules) = 1
            /\ Includes(fRules[1], "*")
            /\ NoSlash(ReplaceBackslashes(fRules[1])))
           => (fResult <=> GlobMatch(fRules[1], basename(NormPath)))

Reversed(s) == [i \in 1..Len(s) |-> s[Len(s) + 1 - i]]

\* C29: isBlacklisted returns true exactly when it returns true for the list
\* of one of the rules alone; so the empty list excludes nothing, the order of
\* the rules and a repetition of them change nothing, and a rule more never
\* lets in a path that was excluded.
C29_Existential ==
    fCall = "isBlacklisted" =>
        /\ fResult <=> \E i \in 1..Len(fRules) : isBlacklisted(fPath, <<fRules[i]>>)
        /\ fRules = <<>> => ~fResult
        /\ fResult = isBlacklisted(fPath, Reversed(fRules))
        /\ fResult = isBlacklisted(fPath, fRules \o fRules)
        /\ fResult => \A r \in GenericRules(1) \cup {sLICENSE, sStarSpecTs} :
                          /\ isBlacklisted(fPath, Append(fRules, r))
                          /\ isBlacklisted(fPath, <<r>> \o fRules)

\* of two different rules the first excludes the path and the second does not
C29_Witness ==
    /\ fCall = "isBlacklisted"
    /\ Len(fRules) = 2
    /\ isBlacklisted(fPath, <<fRules[1]>>)
    /\ ~isBlacklisted(fPath, <<fRules[2]>>)
    /\ fResult = TRUE

(***************************************************************************)
(* Claims about the walk.                                                  *)
(***************************************************************************)
\* the directories of the tree that the loaded blacklist excludes
ExcludedDirs ==
    {node \in tree : /\ isDirectoryEntry(Last(node))
                     /\ isBlacklisted(relativePathOf(node), blacklist)}

\* the nodes of the tree below an excluded directory
BelowExcluded ==
    {node \in tree :
        \E k \in 1..(Len(node) - 1) : SubSeq(node, 1, k) \in ExcludedDirs}

Listed(node) == \E i \in 1..Len(listLog) : listLog[i] = node

WasRead(node) == \E i \in 1..Len(readLog) : readLog[i] = node

Written(text) == \E i \in 1..Len(output) : output[i] = text

C5_NothingBelow ==
    mainPc # "start" =>
        /\ \A node \in ExcludedDirs : ~Listed(node) /\ ~Written(PathLine(node))
        /\ \A node \in BelowExcluded :
              ~Listed(node) /\ ~WasRead(node) /\ ~Written(PathLine(node))

C5_SkipStep ==
    (AtEntry /\ entryNode \in ExcludedDirs) =>
        /\ stats' = [stats EXCEPT !.skipped = @ + 1]
        /\ UNCHANGED <<output, listLog, readLog, errors>>

\* C5: an excluded directory is never listed, nothing below it is listed, read
\* or named in the output, and the step of the loop that meets it adds one to
\* skipped and changes no other counter and no output.
C5_NoDescent == []C5_NothingBelow /\ [][C5_SkipStep]_vars

\* the walk of {a/, a/b.txt} under the rule a is over: a was skipped, nothing
\* was written
C5_Witness ==
    /\ mainPc = "done"
    /\ tree = {<<sA>>, <<sA, sBTxt>>}
    /\ blacklist = <<sA>>
    /\ stats = [NoStats EXCEPT !.skipped = 1]
    /\ listLog = << <<>> >>
    /\ output = <<>>

EnvNodes == {node \in tree : /\ ~isDirectoryEntry(Last(node))
                             /\ isEnvFile(fullPathOf(node))}

\* C6: with --env off no .env file is read, the path line of a .env file is
\* followed by the placeholder, no content block of a .env file is written, and
\* the output equals that of the walk in which the .env files hold other
\* contents.
C6_EnvWithheld ==
    ~includeEnvFiles =>
        /\ \A node \in EnvNodes : ~WasRead(node)
        /\ \A i \in 1..Len(output) :
              /\ output[i][1] # mEnvBegin
              /\ \A node \in EnvNodes :
                    output[i] = PathLine(node) =>
                        i < Len(output) /\ output[i + 1] = EnvSkippedText
        /\ output = shadow

\* a walk with --env off is over and has met a .env file
C6_Witness ==
    /\ ~includeEnvFiles
    /\ mainPc = "done"
    /\ stats.envFiles = 1
    /\ \E node \in EnvNodes : Written(PathLine(node))
    /\ Written(EnvSkippedText)

Excluded(node) == isBlacklisted(relativePathOf(node), blacklist)

FailedDir(node) == \E i \in 1..Len(errorLog) : errorLog[i] = node

\* the nodes the walk has to meet: readdir of the target directory and of
\* every directory above the node worked, and none of these is excluded
Visible(node) ==
    /\ ~FailedDir(<<>>)
    /\ \A k \in 1..(Len(node) - 1) :
          ~Excluded(SubSeq(node, 1, k)) /\ ~FailedDir(SubSeq(node, 1, k))

IsTextNode(node) ==
    /\ ~isDirectoryEntry(Last(node))
    /\ ~isEnvFile(fullPathOf(node))
    /\ isTextFile(fullPathOf(node))

\* the index of a text in the output, 0 when it was not written
PosOf(text) ==
    IF Written(text) THEN CHOOSE i \in 1..Len(output) : output[i] = text ELSE 0

FailedReads == {k \in 1..Len(readData) : readData[k] = <<mReadError>>}

C12_MarkerAndRest ==
    /\ \A k \in FailedReads :
          LET p == PosOf(PathLine(readLog[k]))
          IN  /\ p > 0 /\ p < Len(output)
              /\ output[p + 1] = IF isEnvFile(fullPathOf(readLog[k]))
                                 THEN EnvText(<<mReadError>>)
                                 ELSE FileText(<<mReadError>>)
    /\ mainPc = "done" =>
          \A node \in tree :
              (Visible(node) /\ ~Excluded(node)) =>
                  /\ Written(PathLine(node))
                  /\ IsTextNode(node) => WasRead(node)

C12_ReadStep ==
    (Running /\ Top.pc \in {"readEnv", "readText"}) =>
        /\ stack' = NextEntry(stack)
        /\ Len(output') = Len(output) + 1
        /\ UNCHANGED <<mainPc, stats, errors, errorLog, exitCode>>

\* C12: a failed read leaves the error text where the content would stand,
\* right after the path line of the file; the step that ends a read moves the
\* loop to the next entry and touches no counter whether the read failed or
\* not; and when the walk is over every entry not hidden by an exclusion or by
\* a failed readdir has its path line, every text file among them was read.
C12_ReadFailureLocal == []C12_MarkerAndRest /\ [][C12_ReadStep]_vars

\* a read failed in a subdirectory, and a file of the directory above was
\* read after it
C12_Witness ==
    /\ mainPc = "done"
    /\ Len(readData) = 2
    /\ readData[1] = <<mReadError>>
    /\ readData[2] \in Contents
    /\ Len(readLog[1]) = 2
    /\ Len(readLog[2]) = 1

C13_OnlySubtree ==
    /\ \A node \in tree :
          (\E k \in 1..(Len(node) - 1) : FailedDir(SubSeq(node, 1, k))) =>
              ~Written(PathLine(node)) /\ ~WasRead(node) /\ ~Listed(node)
    /\ mainPc = "done" =>
          \A node \in tree :
              (Visible(node) /\ ~Excluded(node)) => Written(PathLine(node))

C13_FailStep ==
    (Running /\ Top.pc = "readdir" /\ errors' # errors) =>
        /\ Len(stack') = Len(stack) - 1
        /\ Len(stack) > 1 =>
              stack'[Len(stack')] =
                  [stack[Len(stack) - 1] EXCEPT !.i = @ + 1, !.pc = "loop"]
        /\ UNCHANGED <<mainPc, output, stats, exitCode>>

\* C13: nothing below a directory whose readdir failed is listed, read or
\* written; the failing call returns to its caller, whose loop goes on with
\* the next entry; and when the walk is over every entry not hidden by an
\* exclusion or by a failed readdir has its path line.
C13_ListFailureLocal == []C13_OnlySubtree /\ [][C13_FailStep]_vars

\* readdir of a failed, the file below it was not met, and the file that
\* follows a in the target directory was written
C13_Witness ==
    /\ mainPc = "done"
    /\ tree = {<<sA>>, <<sA, sBTxt>>, <<sBTxt>>}
    /\ listData = <<Listing(<<sA, sBTxt>>), ListingFailed>>
    /\ errorLog = << <<sA>> >>
    /\ Written(PathLine(<<sBTxt>>))
    /\ ~Written(PathLine(<<sA, sBTxt>>))

\* the rules file does not exist, or the target directory could not be listed
RequiredInputMissing ==
    \/ blacklistFile = "missing"
    \/ listData # <<>> /\ ~listData[1].ok

\* C14: when the rules file or the target directory is missing, nothing is
\* written and the process does not end with status 0.
C14_AbortsAtStartup ==
    RequiredInputMissing =>
        /\ output = <<>>
        /\ mainPc = "done" => exitCode # 0

\* the reads of text files that have returned
TextReads == {k \in 1..Len(readData) : IsTextNode(readLog[k])}

C16_Verbatim ==
    \A k \in TextReads :
        LET p == PosOf(PathLine(readLog[k]))
        IN  /\ p > 0 /\ p < Len(output)
            /\ output[p + 1] = readData[k] \o <<"\n", "\n">>

\* C16: what follows the path line of a text file is the content as
\* safeReadFile returned it, character for character, and then two line feeds
\* (the end of its last line and one empty line); no step of the walk calls a
\* comment stripper.
C16_TextVerbatim ==
    []C16_Verbatim /\ [][UNCHANGED <<tsVars, sqlVars, stripVars>>]_vars

\* a text file whose content holds a comment and four line feeds in a row was
\* read and written
C16_Witness ==
    /\ mainPc = "done"
    /\ readLog = << <<sBTxt>> >>
    /\ readData = << <<"/", "/", "c", "\n", "\n", "\n", "\n", "x">> >>
    /\ output[2] = <<"/", "/", "c", "\n", "\n", "\n", "\n", "x", "\n", "\n">>

IsEnvText(text) == \E c \in ReadResults : text = EnvText(c)

\* C17: with --env on, every .env file the walk meets and does not exclude is
\* read, whether or not isTextFile accepts it; what follows its path line is
\* the begin marker line, the content as read, and the end marker line, never
\* the placeholder of a binary file or of a withheld file.
C17_EnvIncluded ==
    includeEnvFiles =>
        /\ \A node \in EnvNodes :
              LET p == PosOf(PathLine(node))
              IN  p > 0 =>
                    /\ WasRead(node)
                    /\ p < Len(output) => IsEnvText(output[p + 1])
        /\ \A k \in 1..Len(readData) :
              readLog[k] \in EnvNodes =>
                  output[PosOf(PathLine(readLog[k])) + 1] = EnvText(readData[k])
        /\ mainPc = "done" =>
              \A node \in EnvNodes :
                  (Visible(node) /\ ~Excluded(node)) => WasRead(node)

\* a .env file that isTextFile does not accept was read and written between
\* the markers
C17_Witness ==
    /\ includeEnvFiles
    /\ mainPc = "done"
    /\ <<sDotEnv>> \in EnvNodes
    /\ ~isTextFile(fullPathOf(<<sDotEnv>>))
    /\ readLog = << <<sDotEnv>> >>
    /\ readData = << <<"K", "=", "1">> >>
    /\ output[2] = <<mEnvBegin, "\n", "K", "=", "1", "\n", mEnvEnd, "\n", "\n">>

BinaryNodes ==
    {node \in tree : /\ ~isDirectoryEntry(Last(node))
                     /\ ~isEnvFile(fullPathOf(node))
                     /\ ~isTextFile(fullPathOf(node))}

\* C18: a file that is no .env file and that isTextFile does not accept is
\* never read; what follows its path line is the placeholder; and when the
\* walk is over every such file it met and did not exclude has its path line.
C18_BinaryNotRead ==
    /\ \A node \in BinaryNodes :
          /\ ~WasRead(node)
          /\ LET p == PosOf(PathLine(node))
             IN  p > 0 => p < Len(output) /\ output[p + 1] = BinaryText
    /\ mainPc = "done" =>
          \A node \in BinaryNodes :
              (Visible(node) /\ ~Excluded(node)) => Written(PathLine(node))

\* two entries without a text extension were met, one of them in a
\* subdirectory
C18_Witness ==
    /\ mainPc = "done"
    /\ tree = {<<sA>>, <<sA, sL>>, <<sL>>}
    /\ {<<sA, sL>>, <<sL>>} \subseteq BinaryNodes
    /\ Len(output) = 5
    /\ output[3] = BinaryText
    /\ output[5] = BinaryText
    /\ readLog = <<>>

\* the relative path of a node with forward slashes, and its line
SlashPath(node) == Join(node, <<"/">>)

SlashLine(node) == SlashPath(node) \o <<"\n">>

\* how often a text stands in the output
Occurrences(text) == Cardinality({i \in 1..Len(output) : output[i] = text})

C19_EntryStep ==
    AtEntry =>
        IF isBlacklisted(SlashPath(entryNode), blacklist)
        THEN /\ stats' = [stats EXCEPT !.skipped = @ + 1]
             /\ UNCHANGED <<output, readLog, listLog, errors, errorLog>>
        ELSE /\ Len(output') > Len(output)
             /\ SubSeq(output', 1, Len(output)) = output
             /\ output'[Len(output) + 1] = SlashLine(entryNode)
             /\ stats'.skipped = stats.skipped

C19_OneLine ==
    /\ \A node \in tree : Occurrences(SlashLine(node)) <= 1
    /\ mainPc = "done" =>
          \A node \in tree :
              Visible(node) =>
                  Occurrences(SlashLine(node)) = IF Excluded(node) THEN 0 ELSE 1

\* C19: the step of the loop that meets an excluded entry adds one to skipped
\* and writes nothing; the step that meets any other entry, file or directory,
\* writes first the line of its relative path with forward slashes; no path
\* line is written twice, and when the walk is over every entry met has its
\* line exactly once if it is not excluded and not at all if it is.
C19_PathLineOrNothing == []C19_OneLine /\ [][C19_EntryStep]_vars

\* on a platform whose separator is the backslash, a directory and a file in
\* it were written with forward slashes, and another entry was skipped
C19_Witness ==
    /\ mainPc = "done"
    /\ platformSep = "\\"
    /\ stats.skipped = 1
    /\ Len(output) >= 2
    /\ output[1] = <<"a", "\n">>
    /\ output[2] = <<"a", "/", "l", "\n">>

IsPathLine(text) == \E node \in tree : text = PathLine(node)

IsPrefix(p, node) == Len(p) <= Len(node) /\ SubSeq(node, 1, Len(p)) = p

\* the entries readdir delivered for a directory, <<>> when it has not (yet)
EntriesOf(dir) ==
    LET ks == {k \in 1..Len(listData) : listLog[k] = dir /\ listData[k].ok}
    IN  IF ks = {} THEN <<>> ELSE listData[CHOOSE k \in ks : TRUE].entries

\* readdir delivered node s1 before its sibling s2
EnumeratedBefore(s1, s2) ==
    /\ s1 # <<>> /\ s2 # <<>>
    /\ Parent(s1) = Parent(s2)
    /\ LET es == EntriesOf(Parent(s1))
       IN  \E i, j \in 1..Len(es) : i < j /\ es[i] = Last(s1) /\ es[j] = Last(s2)

C20_PreOrder ==
    /\ \A node \in tree :
          Written(PathLine(node)) =>
              \A k \in 1..(Len(node) - 1) :
                  /\ Written(PathLine(SubSeq(node, 1, k)))
                  /\ PosOf(PathLine(SubSeq(node, 1, k))) < PosOf(PathLine(node))
    /\ \A s1, s2 \in tree :
          (EnumeratedBefore(s1, s2) /\ Written(PathLine(s2))) =>
              \A node \in tree :
                  (IsPrefix(s1, node) /\ Written(PathLine(node))) =>
                      PosOf(PathLine(node)) < PosOf(PathLine(s2))
    /\ \A s1, s2 \in tree :
          (EnumeratedBefore(s1, s2) /\ Written(PathLine(s1))) =>
              \A node \in tree :
                  (IsPrefix(s2, node) /\ Written(PathLine(node))) =>
                      PosOf(PathLine(s1)) < PosOf(PathLine(node))
    /\ \A i \in 1..Len(output) :
          IF IsPathLine(output[i])
          THEN \/ i = 1
               \/ ~IsPathLine(output[i - 1])
               \/ \E node \in tree : /\ output[i - 1] = PathLine(node)
                                     /\ isDirectoryEntry(Last(node))
          ELSE /\ i > 1
               /\ \E node \in tree : /\ output[i - 1] = PathLine(node)
                                     /\ ~isDirectoryEntry(Last(node))

\* C20: in the output the line of a directory stands before the lines of all
\* that is below it; everything written for an entry and for what is below it
\* stands before the line of the entry readdir delivered next, and after the
\* line of the entry delivered before; and every content or placeholder
\* stands right after the path line of its own file, a file's path line being
\* followed by nothing else.
C20_DepthFirstSequential == []C20_PreOrder

\* a directory, the file in it and the file after the directory, both read
C20_Witness ==
    /\ mainPc = "done"
    /\ listData = <<Listing(<<sA, sBTxt>>), Listing(<<sBTxt>>)>>
    /\ Len(readData) = 2
    /\ Len(output) = 5
    /\ output[1] = PathLine(<<sA>>)
    /\ output[2] = PathLine(<<sA, sBTxt>>)
    /\ output[3] = FileText(readData[1])
    /\ output[4] = PathLine(<<sBTxt>>)
    /\ output[5] = FileText(readData[2])

RECURSIVE EnumeratedCount(_)
\* the entries that the first k calls of readdir delivered
EnumeratedCount(k) ==
    IF k = 0 THEN 0 ELSE EnumeratedCount(k - 1) + Len(listData[k].entries)

\* the entries of a running call that its loop has not taken yet
NotTaken(f) ==
    Len(f.entries) - (IF f.pc = "readdir" THEN 0
                      ELSE IF f.pc = "loop" THEN f.i - 1
                      ELSE f.i)

RECURSIVE NotTakenCount(_)
NotTakenCount(k) ==
    IF k = 0 THEN 0 ELSE NotTakenCount(k - 1) + NotTaken(stack[k])

\* the entries the loops have taken so far
TakenCount == EnumeratedCount(Len(listData)) - NotTakenCount(Len(stack))

C21_Counters ==
    /\ stats.skipped + stats.dirs + stats.files = TakenCount
    /\ stats.envFiles <= stats.files
    /\ stats.envFiles =
          Cardinality({node \in EnvNodes : Written(PathLine(node))})
    /\ mainPc = "done" =>
          stats.envFiles =
              Cardinality({node \in EnvNodes : Visible(node) /\ ~Excluded(node)})

C21_CounterStep ==
    /\ stats'.skipped >= stats.skipped
    /\ stats'.dirs >= stats.dirs
    /\ stats'.files >= stats.files
    /\ stats'.envFiles >= stats.envFiles
    /\ IF AtEntry /\ stack' # stack
       THEN \/ stats' = [stats EXCEPT !.skipped = @ + 1]
            \/ stats' = [stats EXCEPT !.dirs = @ + 1]
            \/ stats' = [stats EXCEPT !.files = @ + 1]
            \/ stats' = [stats EXCEPT !.files = @ + 1, !.envFiles = @ + 1]
       ELSE stats' = stats

\* C21: at every point of a walk skipped + dirs + files is the number of
\* entries the loops have taken, envFiles is at most files and counts the
\* .env files whose path line is written, with --env on or off; a step that
\* takes an entry adds one to exactly one of skipped, dirs and files, no other
\* step changes a counter, and no counter ever decreases.
C21_ScanStats == []C21_Counters /\ [][C21_CounterStep]_vars

\* a walk with --env off that skipped a directory and counted a .env file and
\* a text file
C21_Witness ==
    /\ mainPc = "done"
    /\ ~includeEnvFiles
    /\ tree = {<<sA>>, <<sDotEnv>>, <<sBTxt>>}
    /\ stats = [dirs |-> 0, files |-> 2, skipped |-> 1, envFiles |-> 1]

\* readdir was called at most once on every directory, and only on the
\* target directory and on entries that are directories; the output stream
\* was not ended more than once, and not before the walk was over
C27_EnumeratedOnce ==
    /\ \A i, j \in 1..Len(listLog) : listLog[i] = listLog[j] => i = j
    /\ \A i \in 1..Len(listLog) :
          listLog[i] = <<>> \/ Last(listLog[i]) \in DirNames
    /\ streamEnds = (IF mainPc = "done" THEN 1 ELSE 0)

\* every call of scanDirectory has returned and main has ended the stream
C27_Finished == mainPc = "done" /\ stack = <<>> /\ streamEnds = 1

\* C27: under fair scheduling the walk terminates: every call of
\* scanDirectory returns and main then ends the output stream, once; no
\* directory is enumerated twice, and no entry that is not a directory, a
\* symbolic link included, is enumerated at all.
C27_Terminates == []C27_EnumeratedOnce /\ <>[]C27_Finished

\* a finished walk over a directory that holds a symbolic link, next to
\* another link
C27_Witness ==
    /\ C27_Finished
    /\ tree = {<<sA>>, <<sA, sL>>, <<sL>>}
    /\ listLog = << <<>>, <<sA>> >>
    /\ exitCode = 0

(***************************************************************************)
(* Claims about isEnvFile.                                                 *)
(***************************************************************************)
\* a character of a name equals a lower-case character of a pattern, case ignored
SameLetter(c, l) ==
    \/ c = l
    \/ <<c, l>> \in {<<"E", "e">>, <<"N", "n">>, <<"V", "v">>}

\* the name holds the pattern at index i, case ignored
HoldsAt(name, pat, i) ==
    /\ i >= 1
    /\ i + Len(pat) - 1 <= Len(name)
    /\ \A k \in 1..Len(pat) : SameLetter(name[i + k - 1], pat[k])

DotEnvName(name) ==
    \/ Len(name) = 4 /\ HoldsAt(name, sDotEnv, 1)
    \/ HoldsAt(name, sDotEnv \o <<".">>, 1)
    \/ HoldsAt(name, sDotEnv, Len(name) - 3)

\* C7: isEnvFile is true exactly when the name of the file is .env, starts
\* with .env. or ends with .env, case ignored, whatever the directory is.
C7_EnvClassification ==
    eCall = "isEnvFile" => (eResult <=> DotEnvName(eName))

C7_Witness ==
    /\ eCall = "isEnvFile"
    /\ eDir = sEnvD
    /\ eName = sEnvironmentTs
    /\ eResult = FALSE

(***************************************************************************)
(* Claims about the comment-stripper module.                               *)
(***************************************************************************)
DropCR(l) == IF l # <<>> /\ Last(l) = "\r" THEN SubSeq(l, 1, Len(l) - 1) ELSE l

\* the lines of a content, each ended by a line feed (the last need not be)
LinesOf(x) ==
    LET pieces == Split(x, "\n")
        n == Len(pieces)
        kept == IF pieces[n] = <<>> THEN SubSeq(pieces, 1, n - 1) ELSE pieces
    IN  [k \in 1..Len(kept) |-> DropCR(kept[k])]

\* a blank or whitespace-only line
WhiteLine(l) == \A i \in 1..Len(l) : l[i] \in {" ", "\t"}

TextLines(ls) == SelectSeq(ls, LAMBDA l : ~WhiteLine(l))

\* how many white lines stand before the first text line, between each two
\* text lines that follow each other, and after the last
RECURSIVE BlankRuns(_, _, _)
BlankRuns(ls, i, n) ==
    IF i > Len(ls) THEN <<n>>
    ELSE IF WhiteLine(ls[i]) THEN BlankRuns(ls, i + 1, n + 1)
    ELSE <<n>> \o BlankRuns(ls, i + 1, 0)

\* C11: removeExcessiveEmptyLines keeps the text lines, leaves one blank line
\* wherever the content has a run of three or more blank or whitespace-only
\* lines, and returns unchanged a content whose blank lines are empty and
\* stand alone.
C11_BlankRuns ==
    sCall = "removeExcessiveEmptyLines" =>
        LET inL == LinesOf(sIn)
            outL == LinesOf(sResult.value)
            inRuns == BlankRuns(inL, 1, 0)
            outRuns == BlankRuns(outL, 1, 0)
        IN  /\ (\E k \in 1..Len(inRuns) : inRuns[k] >= 3) =>
                   /\ TextLines(outL) = TextLines(inL)
                   /\ \A k \in 1..Len(inRuns) : inRuns[k] >= 3 => outRuns[k] = 1
            /\ ( /\ \A k \in 1..Len(inRuns) : inRuns[k] <= 1
                 /\ \A k \in 1..Len(inL) : WhiteLine(inL[k]) => inL[k] = <<>> ) =>
                   sResult.value = sIn

\* C15: stripComments returns and does not throw, for every content, file
\* type and behaviour of the library; when the library throws, what it
\* returns is the content it was given.
C15_Total ==
    sCall = "stripComments" =>
        /\ sResult.kind = "return"
        /\ sLib.kind = "throw" => sResult.value = sIn

\* the library threw on a content that stripping would have changed
C15_Witness ==
    /\ sCall = "stripComments"
    /\ sType = "JSON"
    /\ sLib.kind = "throw"
    /\ sIn = sFiveBlank
    /\ sResult = Returned(sFiveBlank)

(***************************************************************************)
(* Claims about the strippers.                                             *)
(***************************************************************************)
\* C8: the c-style stripper, also used for JSON, is idempotent.
C8_Idempotent == tCalls = 2 => tTwice = tOnce

\* a content with a comment, stripped twice
C8_Witness == tCalls = 2 /\ tFn = "json" /\ tOnce # tIn /\ tOnce # <<>>

\* C9: the SQL stripper is idempotent.
C9_SqlIdempotent == qCalls = 2 => qTwice = qOnce

Quotes == {"'", "\"", BackQuote}

\* the index of the first quote of the content, when nothing before it can
\* start a comment; 0 otherwise
RECURSIVE FirstQuote(_, _)
FirstQuote(x, i) ==
    IF i > Len(x) \/ x[i] = "/" THEN 0
    ELSE IF x[i] \in Quotes THEN i
    ELSE FirstQuote(x, i + 1)

\* the index of the quote that closes the literal opened by quote, looking
\* from index i: a backslash escapes the character after it; 0 when unclosed
RECURSIVE ClosingQuote(_, _, _, _)
ClosingQuote(x, quote, i, escaped) ==
    IF i > Len(x) THEN 0
    ELSE IF escaped THEN ClosingQuote(x, quote, i + 1, FALSE)
    ELSE IF x[i] = "\\" THEN ClosingQuote(x, quote, i + 1, TRUE)
    ELSE IF x[i] = quote THEN i
    ELSE ClosingQuote(x, quote, i + 1, FALSE)

\* C10: the characters of a string literal, from its opening quote to its
\* matching closing quote, are copied to the output unchanged (the literal
\* taken is the first of the content, with no comment before it).
C10_LiteralKept ==
    tCalls >= 1 =>
        LET q == FirstQuote(tIn, 1)
            c == IF q = 0 THEN 0 ELSE ClosingQuote(tIn, tIn[q], q + 1, FALSE)
        IN  c # 0 => /\ Len(tOnce) >= c
                     /\ SubSeq(tOnce, 1, c) = SubSeq(tIn, 1, c)

\* the flags of the scanner when it has handled the first n characters of the
\* content
FlagsAfter(x, n) == scanFlags(ScanStart, Split(SubSeq(x, 1, n), "\n"))

\* the scanner is inside a literal opened by quote, and in no other
InLiteralOf(st, quote) ==
    /\ st.inSingleQuoteString <=> quote = "'"
    /\ st.inDoubleQuoteString <=> quote = "\""
    /\ st.inTemplateString <=> quote = BackQuote

\* C24: a quote of the kind that opened a string literal, escaped by a
\* backslash inside the literal, does not end it: when the scanner has handled
\* it, it is still inside the same literal, and what follows up to the closing
\* quote is in the output (the literal taken is the first of the content, with
\* no comment before it).
C24_EscapedQuote ==
    tCalls >= 1 =>
        LET q == FirstQuote(tIn, 1)
            c == IF q = 0 THEN 0 ELSE ClosingQuote(tIn, tIn[q], q + 1, FALSE)
        IN  \A e \in (q + 1)..(c - 1) :
                tIn[e] = tIn[q] =>
                    /\ InLiteralOf(FlagsAfter(tIn, e), tIn[q])
                    /\ Len(tOnce) >= c
                    /\ SubSeq(tOnce, e, c) = SubSeq(tIn, e, c)

\* the index of the first block-comment opener of the content, when nothing
\* before it opens a comment or a string literal; 0 otherwise
BlockOpen(x) ==
    LET o == IndexOf(x, <<"/", "*">>, 1)
    IN  IF o # 0 /\ \A i \in 1..(o - 1) : x[i] \notin Quotes \cup {"/"}
        THEN o ELSE 0

\* the index of the marker that closes the comment opened at o; 0 when unclosed
BlockClose(x, o) == IF o = 0 THEN 0 ELSE IndexOf(x, <<"*", "/">>, o + 2)

\* the content holds a block comment over several lines, and what follows
\* the comment opens no comment and no string literal
SpansLines(x) ==
    LET o == BlockOpen(x)
        c == BlockClose(x, o)
    IN  /\ c # 0
        /\ Includes(SubSeq(x, o + 2, c - 1), "\n")
        /\ \A i \in (c + 2)..Len(x) : x[i] \notin Quotes \cup {"/"}

\* the lines before the opening line, the opening line up to the opener when
\* keep says so, and the lines from behind the closing marker on
WithoutBlock(x, keep(_)) ==
    LET o == BlockOpen(x)
        c == BlockClose(x, o)
        before == Split(SubSeq(x, 1, o - 1), "\n")
        pre == before[Len(before)]
        after == Split(SubSeq(x, c + 2, Len(x)), "\n")
    IN  Join(SubSeq(before, 1, Len(before) - 1)
             \o (IF keep(pre) THEN <<pre>> ELSE <<>>)
             \o after, <<"\n">>)

NotEmpty(s) == s # <<>>

NotBlank(s) == ~trimIsEmpty(s)

RECURSIVE IsSubsequence(_, _)
\* the characters of a occur in b, in the order of a
IsSubsequence(a, b) ==
    IF a = <<>> THEN TRUE
    ELSE IF b = <<>> THEN FALSE
    ELSE IF Head(a) = Head(b) THEN IsSubsequence(Tail(a), Tail(b))
    ELSE IsSubsequence(a, Tail(b))

\* the content without its line breaks
Solid(x) == SelectSeq(x, LAMBDA ch : ch # "\n")

\* The text of an SQL content that lies outside every comment, read from
\* index i as a lexer reads it: two dashes open a comment that ends before the
\* line break, slash-star opens a comment that ends behind the first
\* star-slash after it (an opener that nothing closes is text).
RECURSIVE OutsideComments(_, _)
OutsideComments(x, i) ==
    IF i > Len(x) THEN <<>>
    ELSE IF i + 1 <= Len(x) /\ x[i] = "-" /\ x[i + 1] = "-"
    THEN LET nl == IndexOf(x, <<"\n">>, i)
         IN  IF nl = 0 THEN <<>> ELSE OutsideComments(x, nl)
    ELSE IF /\ i + 1 <= Len(x) /\ x[i] = "/" /\ x[i + 1] = "*"
            /\ IndexOf(x, <<"*", "/">>, i + 2) # 0
    THEN OutsideComments(x, IndexOf(x, <<"*", "/">>, i + 2) + 2)
    ELSE <<x[i]>> \o OutsideComments(x, i + 1)

HasLineComment(x) == IndexOf(x, <<"-", "-">>, 1) # 0

HasBlockComment(x) ==
    \E i \in 1..Len(x) :
        /\ IndexOf(x, <<"/", "*">>, i) = i
        /\ IndexOf(x, <<"*", "/">>, i + 2) # 0

\* C26: the output of the SQL stripper holds no two dashes and no block
\* comment with both its markers, and the text outside the comments of the
\* input is still in it (line breaks apart).
C26_SqlComments ==
    qCalls >= 1 =>
        /\ ~HasLineComment(qOnce)
        /\ ~HasBlockComment(qOnce)
        /\ IsSubsequence(Solid(OutsideComments(qIn, 1)), qOnce)

FlagNames ==
    {"inSingleLineComment", "inMultiLineComment", "inSingleQuoteString",
     "inDoubleQuoteString", "inTemplateString"}

\* C28: when the scanner has handled any prefix of the content, at most one
\* of its five flags is true, escape is set only inside a string literal, and
\* inSingleLineComment is false at the start of every line.
C28_ScannerFlags ==
    tCalls >= 1 =>
        \A n \in 0..Len(tIn) :
            LET st == FlagsAfter(tIn, n)
            IN  /\ Cardinality({f \in FlagNames : st[f]}) <= 1
                /\ st.escape => inString(st)
                /\ (n = 0 \/ tIn[n] = "\n") => ~st.inSingleLineComment

\* a content whose literal holds an escaped quote and is followed by a line
\* comment, with a second line after it
C28_Witness ==
    /\ tCalls >= 1
    /\ tIn = <<"'", "\\", "'", "'", "/", "/", "\n", "a">>
    /\ FlagsAfter(tIn, 2).escape
    /\ FlagsAfter(tIn, 3).inSingleQuoteString
    /\ FlagsAfter(tIn, 6).inSingleLineComment
    /\ ~FlagsAfter(tIn, 7).inSingleLineComment

\* the number of lines of a content
LineCount(x) == Len(Split(x, "\n"))

OnlyDeleted(in, out) == IsSubsequence(out, in) /\ LineCount(out) <= LineCount(in)

\* C30: the output of the c-style stripper and the output of the SQL stripper
\* are what is left of the input when characters are deleted from it: no
\* character is put in or moved, and the output has no more lines than the
\* input.
C30_OnlyDeletes ==
    /\ tCalls >= 1 => OnlyDeleted(tIn, tOnce)
    /\ tCalls = 2 => OnlyDeleted(tOnce, tTwice)
    /\ qCalls >= 1 => OnlyDeleted(qIn, qOnce)
    /\ qCalls = 2 => OnlyDeleted(qOnce, qTwice)

\* the SQL stripper took a block comment of three lines out of a content
C30_Witness ==
    /\ qCalls >= 1
    /\ qIn = <<"a", "/", "*", "\n", "-", "-", "a", "\n", "*", "/", "a">>
    /\ qOnce = <<"a", "a">>

====
